---- MODULE Spec2Model ----
(***************************************************************************)
(* Vaccine allocation optimizer: the weights loader (weight_sum_module.py) *)
(* and the LP build / solve / timing search of VaccineAllocationOptimizer. *)
(*                                                                         *)
(* Number encoding (the code computes with Python floats; the model keeps  *)
(* the same quantities exact, in fixed units):                             *)
(*   weights w1,w2,w3        thousandths            (0.33 -> 330)          *)
(*   coverage U1_j, U2_j     percent                (0.05 -> 5)            *)
(*   vaccine amounts         hundredths of a dose   (U percent * people)   *)
(*   production V_prime_i    thousandths of a dose                         *)
(*   Z1                      thousandths                                   *)
(*   Z2                      thousandths            (wide number)          *)
(*   Z3                      ten-thousandths        (wide number)          *)
(*   combined objective      1e-14                  (wide number)          *)
(* A wide number is a tuple of four base-10^6 limbs, least significant     *)
(* first, because the model checker's integers are 32 bits wide.           *)
(***************************************************************************)
EXTENDS Integers, Sequences, FiniteSets, TLC

VARIABLES
    weights_file,        \* the content of the weights file handed to load_weights
    w,                   \* self.w1, self.w2, self.w3 (what load_weights returned)
    weights_valid,       \* self.weights_valid
    data,                \* self.S, self.I, self.Q, self.V1, self.V2, self.R
    config,              \* self.config
    tau1,                \* self.tau1
    tau2,                \* self.tau2
    model,               \* self.model together with self.U1/U2/V_prime/objectives
    status,              \* self.model.status after the last solve
    solver,              \* the external solver's (fixed, unknown) behaviour
    pc,                  \* position of the running method
    grid,                \* find_optimal_timing: the points the nested loops run over
    pos,                 \* find_optimal_timing: index of the next grid point
    total_combinations,  \* find_optimal_timing: total_combinations
    best_cost,           \* find_optimal_timing: best_cost
    best_timing,         \* find_optimal_timing: best_timing
    best_results,        \* find_optimal_timing: best_results
    results,             \* the value the last solve_model call returned
    ret,                 \* the value find_optimal_timing returned / raised
    calls,               \* history: the build_model / solve_model calls made so far
    sensitivity_results  \* analyze_timing_sensitivity: sensitivity_results, cost_matrix, row

vars == <<weights_file, w, weights_valid, data, config, tau1, tau2, model,
          status, solver, pc, grid, pos, total_combinations, best_cost,
          best_timing, best_results, results, ret, calls, sensitivity_results>>

\* Python's None
None == [none |-> TRUE]

\* self.T = len(self.time_points)
T == data.T

(***************************************************************************)
(* Bounds of the model.                                                    *)
(***************************************************************************)
\* number of time points of the epidemic series the timing search is run on
NumDays == 4
\* largest tau1 bound and largest gap a timing-search configuration names
MaxTau1 == 2

MaxGap == 2

(***************************************************************************)
(* Wide integers: <<l1, l2, l3, l4>> stands for l1 + l2*B + l3*B^2 + l4*B^3*)
(* with l1, l2, l3 in 0..B-1; the sign is that of l4                       *)
(***************************************************************************)
WBase == 1000 * 1000

W(n) == <<n % WBase, (n \div WBase) % WBase,
          IF n < 0 THEN WBase - 1 ELSE 0, IF n < 0 THEN -1 ELSE 0>>

WNonNeg(a) == a[4] >= 0

WZero == <<0, 0, 0, 0>>

WAdd(a, b) ==
    LET s1 == a[1] + b[1]
        s2 == a[2] + b[2] + (s1 \div WBase)
        s3 == a[3] + b[3] + (s2 \div WBase)
        s4 == a[4] + b[4] + (s3 \div WBase)
    IN  <<s1 % WBase, s2 % WBase, s3 % WBase, s4>>

\* a * k for 0 <= k <= 2000
WMul(a, k) ==
    LET s1 == a[1] * k
        s2 == a[2] * k + (s1 \div WBase)
        s3 == a[3] * k + (s2 \div WBase)
        s4 == a[4] * k + (s3 \div WBase)
    IN  <<s1 % WBase, s2 % WBase, s3 % WBase, s4>>

WLess(a, b) ==
    \/ a[4] < b[4]
    \/ a[4] = b[4] /\ a[3] < b[3]
    \/ a[4] = b[4] /\ a[3] = b[3] /\ a[2] < b[2]
    \/ a[4] = b[4] /\ a[3] = b[3] /\ a[2] = b[2] /\ a[1] < b[1]

WLeq(a, b) == a = b \/ WLess(a, b)

\* a * k for 0 <= k <= 2000000
WScale(a, k) == WAdd(WMul(WMul(a, k \div 1000), 1000), WMul(a, k % 1000))

(***************************************************************************)
(* weight_sum_module.load_weights                                          *)
(***************************************************************************)
\* a JSON value found under a weight key: a number (thousandths) or a string
Num(v) == [t |-> "num", v |-> v]

Str == [t |-> "str", v |-> 0]

IsNum(x) == x.t = "num"

\* the weights file: absent, not parsable, parsable without the three keys,
\* or a dict holding w1, w2, w3
NoFile == [kind |-> "absent"]

BadJson == [kind |-> "bad_json"]

NoKeys == [kind |-> "no_keys"]

WFile(a, b, c) == [kind |-> "dict", w1 |-> a, w2 |-> b, w3 |-> c]

DefaultW1 == 330

DefaultW2 == 330

DefaultW3 == 340

default_weights == [w1 |-> Num(DefaultW1), w2 |-> Num(DefaultW2), w3 |-> Num(DefaultW3)]

\* 0.99 <= w1 + w2 + w3 <= 1.01
SumLow == 990

SumHigh == 1010

sum_check(x) == SumLow <= x.w1.v + x.w2.v + x.w3.v /\ x.w1.v + x.w2.v + x.w3.v <= SumHigh

\* 0 <= w1 <= 1 and 0 <= w2 <= 1 and 0 <= w3 <= 1
range_check(x) == \A k \in {x.w1, x.w2, x.w3} : 0 <= k.v /\ k.v <= 1000

\* a loader that keeps the file's weights when their sum is off
sum_fallback_keeps_file(x) == x

\* what the failed checks put in place of the file's weights
sum_fallback(x) == default_weights

range_fallback(x) == default_weights

\* the weights in hand when an exception leaves the try block
on_exception(x) == x

\* returns [w |-> (w1, w2, w3), weights_valid |-> ...]
load_weights(f) ==
    IF f.kind = "absent"
    THEN [w |-> default_weights, weights_valid |-> TRUE]
    ELSE IF f.kind = "bad_json"
    THEN [w |-> default_weights, weights_valid |-> FALSE]
    ELSE LET read   == IF f.kind = "dict"
                       THEN [w |-> [w1 |-> f.w1, w2 |-> f.w2, w3 |-> f.w3],
                             weights_valid |-> TRUE]
                       ELSE [w |-> default_weights, weights_valid |-> FALSE]
             summed == IF ~sum_check(read.w)
                       THEN [w |-> sum_fallback(read.w), weights_valid |-> FALSE]
                       ELSE read
             ranged == IF ~range_check(summed.w)
                       THEN [w |-> range_fallback(summed.w), weights_valid |-> FALSE]
                       ELSE summed
         IN  IF \E k \in {read.w.w1, read.w.w2, read.w.w3} : ~IsNum(k)
             THEN \* w1 + w2 + w3 (or its comparison) raises TypeError
                  [w |-> on_exception(read.w), weights_valid |-> FALSE]
             ELSE ranged

\* weight values the modelled files take
FileWeightValues == {Num(v) : v \in {-100, 0, 330, 335, 340, 500, 1000}} \cup {Str}

WeightFiles ==
    {NoFile, BadJson, NoKeys}
    \cup {WFile(a, b, c) : a \in FileWeightValues, b \in FileWeightValues, c \in FileWeightValues}


(***************************************************************************)
(* Python helpers                                                          *)
(***************************************************************************)
Max(a, b) == IF a >= b THEN a ELSE b

Min(a, b) == IF a <= b THEN a ELSE b

Abs(a) == IF a >= 0 THEN a ELSE -a

\* len(range(a, b, s)) for s # 0
RangeLen(a, b, s) ==
    IF s > 0
    THEN (IF b > a THEN (b - a + s - 1) \div s ELSE 0)
    ELSE (IF a > b THEN (a - b + (-s) - 1) \div (-s) ELSE 0)

\* list(range(a, b, s)) for s # 0
PyRange(a, b, s) == [i \in 1..RangeLen(a, b, s) |-> a + (i - 1) * s]

\* numpy indexing: arr[t], negative t counts from the end
InBounds(t) == -T <= t /\ t < T

At(arr, t) == IF t >= 0 THEN arr[t] ELSE arr[T + t]

RECURSIVE SumOver(_, _, _)
\* sum(arr[t] for t in r), r a list of days, the first n of them
SumOver(arr, r, n) == IF n = 0 THEN 0 ELSE SumOver(arr, r, n - 1) + At(arr, r[n])

RECURSIVE Concat(_, _)
\* f[1] \o f[2] \o ... \o f[n]
Concat(f, n) == IF n = 0 THEN <<>> ELSE Concat(f, n - 1) \o f[n]

(***************************************************************************)
(* prepare_data: the series and the cost parameters                        *)
(***************************************************************************)
num_groups == 2

num_manufacturers == 2

Groups == 1..num_groups

Days == 0..(T - 1)

end_time == <<T - 1, T - 1>>

P == <<8, 6>>

SC == <<300, 300>>

CV1 == 50

CV2 == 30

L == 3000

A == 15

B == 40

default_tau1 == <<30, 35>>

default_tau2 == <<75, 80>>

\* the days of a series of NumDays time points
SeriesDays == 0..(NumDays - 1)

\* a series a + b*t, never below 0
Lin(a, b) == [t \in SeriesDays |-> Max(a + b * t, 0)]

\* a series that is 0 before day d and c from day d on
Late(c, d) == [t \in SeriesDays |-> IF t < d THEN 0 ELSE c]

Zero == Lin(0, 0)

\* the epidemic series the model is run on (each: group 1, group 2)
DataTypical ==
    [T  |-> NumDays,
     S  |-> <<Lin(1500, -100), Lin(1200, -50)>>,
     I  |-> <<Lin(20, 10), Lin(30, 5)>>,
     Q  |-> <<Lin(5, 0), Lin(10, 0)>>,
     V1 |-> <<Lin(0, 50), Lin(0, 40)>>,
     V2 |-> <<Lin(0, 10), Zero>>,
     R  |-> <<Lin(0, 20), Lin(5, 5)>>]

DataQuiet ==
    [T  |-> NumDays,
     S  |-> <<Lin(400, 0), Lin(400, 0)>>,
     I  |-> <<Zero, Zero>>,
     Q  |-> <<Zero, Zero>>,
     V1 |-> <<Lin(100, 0), Lin(100, 0)>>,
     V2 |-> <<Zero, Zero>>,
     R  |-> <<Zero, Zero>>]

DataGroup1Late ==
    [T  |-> NumDays,
     S  |-> <<Late(1000, 2), Lin(1000, 0)>>,
     I  |-> <<Lin(10, 0), Lin(10, 0)>>,
     Q  |-> <<Zero, Zero>>,
     V1 |-> <<Zero, Zero>>,
     V2 |-> <<Zero, Zero>>,
     R  |-> <<Zero, Zero>>]

DataNoDemand ==
    [T  |-> NumDays,
     S  |-> <<Zero, Zero>>,
     I  |-> <<Lin(10, 0), Lin(10, 0)>>,
     Q  |-> <<Lin(5, 0), Lin(5, 0)>>,
     V1 |-> <<Zero, Zero>>,
     V2 |-> <<Zero, Zero>>,
     R  |-> <<Lin(985, 0), Lin(985, 0)>>]

DataLateWave ==
    [T  |-> NumDays,
     S  |-> <<Lin(1000, 0), Late(1000, 1)>>,
     I  |-> <<Late(50, NumDays - 1), Late(50, NumDays - 1)>>,
     Q  |-> <<Zero, Zero>>,
     V1 |-> <<Zero, Zero>>,
     V2 |-> <<Zero, Zero>>,
     R  |-> <<Zero, Zero>>]

DataSets == {DataTypical, DataQuiet, DataGroup1Late, DataNoDemand, DataLateWave}


(***************************************************************************)
(* build_model: the scalar sums over the day ranges of a timing            *)
(***************************************************************************)
\* range(self.tau1[j_idx])
days_before_vax(t1, t2, j) == PyRange(0, t1[j], 1)

\* range(self.tau1[j_idx], self.tau2[j_idx])
days_between_doses(t1, t2, j) == PyRange(t1[j], t2[j], 1)

\* an after-dose-2 range that starts the day after tau2
days_after_dose2_from_next_day(t1, t2, j) == PyRange(t2[j] + 1, end_time[j] + 1, 1)

\* range(self.tau2[j_idx], self.end_time[j_idx] + 1)
days_after_dose2(t1, t2, j) == PyRange(t2[j], end_time[j] + 1, 1)

SumDays(arr, r) == SumOver(arr, r, Len(r))

\* objective2: sum of I over each range
z2_infected_before_vax(d, t1, t2, j) == SumDays(d.I[j], days_before_vax(t1, t2, j))

z2_infected_between_doses(d, t1, t2, j) == SumDays(d.I[j], days_between_doses(t1, t2, j))

z2_infected_after_dose2(d, t1, t2, j) == SumDays(d.I[j], days_after_dose2(t1, t2, j))

\* objective3: S + I + Q before dose 1, I in the two other ranges
total_people_before_vax(d, t1, t2, j) ==
    SumDays([t \in Days |-> d.S[j][t] + d.I[j][t] + d.Q[j][t]], PyRange(0, t1[j], 1))

z3_infected_between_doses(d, t1, t2, j) == SumDays(d.I[j], PyRange(t1[j], t2[j], 1))

z3_infected_after_dose2(d, t1, t2, j) == SumDays(d.I[j], PyRange(t2[j], end_time[j] + 1, 1))

economic_weight10(j) == IF j = 2 THEN 8 ELSE 7

Cq_before_vax(t1, t2, j) == A * t1[j] + B

Cq_between_doses(t1, t2, j) == A * (t2[j] - t1[j]) + B

Cq_after_dose2(t1, t2, j) == A * (end_time[j] - t2[j]) + B

\* a demand window that leaves out the day dose 1 starts
total_susceptible_from_next_day(d, t1, t2, j) == SumDays(d.S[j], PyRange(t1[j] + 1, t2[j], 1))

\* the demand constraint: S between the doses, V1 after dose 2
total_susceptible(d, t1, t2, j) == SumDays(d.S[j], PyRange(t1[j], t2[j], 1))

total_vaccinated_dose1(d, t1, t2, j) == SumDays(d.V1[j], PyRange(t2[j], end_time[j] + 1, 1))

\* every day build_model indexes the series with, for a timing
IndexedDays(t1, t2) ==
    UNION {{r[i] : i \in 1..Len(r)} :
           r \in UNION {{days_before_vax(t1, t2, j), days_between_doses(t1, t2, j),
                         days_after_dose2(t1, t2, j)} : j \in Groups}}

\* an index outside the series raises IndexError
build_raises(t1, t2) == \E t \in IndexedDays(t1, t2) : ~InBounds(t)

\* the LP instance build_model leaves in self.model: the coefficients of the
\* three objectives and of the constraints, and the weights of the scalarization
LP(d, ww, t1, t2) ==
    [built      |-> TRUE,
     I_before   |-> [j \in Groups |-> z2_infected_before_vax(d, t1, t2, j)],
     I_between  |-> [j \in Groups |-> z2_infected_between_doses(d, t1, t2, j)],
     I_after    |-> [j \in Groups |-> z2_infected_after_dose2(d, t1, t2, j)],
     E_before   |-> [j \in Groups |-> total_people_before_vax(d, t1, t2, j)],
     E_between  |-> [j \in Groups |-> z3_infected_between_doses(d, t1, t2, j)],
     E_after    |-> [j \in Groups |-> z3_infected_after_dose2(d, t1, t2, j)],
     Cq_before  |-> [j \in Groups |-> Cq_before_vax(t1, t2, j)],
     Cq_between |-> [j \in Groups |-> Cq_between_doses(t1, t2, j)],
     Cq_after   |-> [j \in Groups |-> Cq_after_dose2(t1, t2, j)],
     S_between  |-> [j \in Groups |-> total_susceptible(d, t1, t2, j)],
     V1_after   |-> [j \in Groups |-> total_vaccinated_dose1(d, t1, t2, j)],
     w          |-> ww]

\* LpProblem(...) before anything was added to it
EmptyLP == [built |-> FALSE]


(***************************************************************************)
(* build_model: objectives and constraints as functions of an assignment   *)
(* x = [U1 |-> <<..>>, U2 |-> <<..>>, V_prime |-> <<..>>] of the decision  *)
(* variables                                                               *)
(***************************************************************************)
norm_factor1 == 5000

norm_factor2 == 400000

norm_factor3 == 10000000

\* objective1 = lpSum(P[i-1] * V_prime[i])                     (thousandths)
objective1(lp, x) == P[1] * x.V_prime[1] + P[2] * x.V_prime[2]

\* a dose-1 factor that does not depend on the coverage
mitigation1_flat(u) == 1000

\* 1 - 0.7 * U1[j] and 1 - 0.9 * U2[j]                         (thousandths)
mitigation1(u) == 1000 - 7 * u

\* a dose-2 factor 1 - 1.9 * U2[j], negative for large coverage
mitigation2_steep(u) == 1000 - 19 * u

mitigation2(u) == 1000 - 9 * u

social_cost_before_vax(lp, x, j) == W(SC[j] * lp.I_before[j] * 1000)

\* self.SC[j_idx] * total_infected_between_doses * (1 - 0.7 * self.U1[j])
social_infection_between_doses(lp, x, j) ==
    W(SC[j] * lp.I_between[j] * mitigation1(x.U1[j]))

\* self.CV1 * 1.5 * self.U1[j]
administration_dose1(x, j) == W(CV1 * 15 * x.U1[j])

social_cost_between_doses(lp, x, j) ==
    WAdd(social_infection_between_doses(lp, x, j), administration_dose1(x, j))

\* self.SC[j_idx] * total_infected_after_dose2 * (1 - 0.9 * self.U2[j])
social_infection_after_dose2(lp, x, j) ==
    W(SC[j] * lp.I_after[j] * mitigation2(x.U2[j]))

\* self.CV2 * 1.5 * self.U2[j]
administration_dose2(x, j) == W(CV2 * 15 * x.U2[j])

social_cost_after_dose2(lp, x, j) ==
    WAdd(social_infection_after_dose2(lp, x, j), administration_dose2(x, j))

\* objective2                                                  (thousandths)
objective2(lp, x) ==
    LET group(j) == WAdd(social_cost_before_vax(lp, x, j),
                         WAdd(social_cost_between_doses(lp, x, j),
                              social_cost_after_dose2(lp, x, j)))
    IN  WAdd(group(1), group(2))

economic_cost_before_vax(lp, x, j) ==
    WMul(W(lp.Cq_before[j] * lp.E_before[j] * economic_weight10(j)), 1000)

economic_cost_between_doses(lp, x, j) ==
    WMul(W(lp.Cq_between[j] * lp.E_between[j] * economic_weight10(j)), mitigation1(x.U1[j]))

economic_cost_after_dose2(lp, x, j) ==
    WMul(W(lp.Cq_after[j] * lp.E_after[j] * economic_weight10(j)), mitigation2(x.U2[j]))

\* objective3                                              (ten-thousandths)
objective3(lp, x) ==
    LET group(j) == WAdd(economic_cost_before_vax(lp, x, j),
                         WAdd(economic_cost_between_doses(lp, x, j),
                              economic_cost_after_dose2(lp, x, j)))
    IN  WAdd(group(1), group(2))

\* a scalarization that leaves the supply cost out
combined_objective_without_supply(lp, x) ==
    WAdd(WScale(WMul(objective2(lp, x), lp.w.w2.v), 100000000 \div norm_factor2),
         WScale(WMul(objective3(lp, x), lp.w.w3.v), 10000000 \div norm_factor3))

\* w1 * objective1 / norm_factor1 + w2 * objective2 / norm_factor2
\*   + w3 * objective3 / norm_factor3                          (unit 1e-14)
combined_objective(lp, x) ==
    WAdd(WScale(WMul(W(objective1(lp, x)), lp.w.w1.v), 100000000 \div norm_factor1),
         WAdd(WScale(WMul(objective2(lp, x), lp.w.w2.v), 100000000 \div norm_factor2),
              WScale(WMul(objective3(lp, x), lp.w.w3.v), 10000000 \div norm_factor3)))

\* group_vax_need of group j                         (hundredths of a dose)
total_vax_group(lp, x, j) == x.U1[j] * lp.S_between[j] + x.U2[j] * lp.V1_after[j]

total_vax_all(lp, x) == total_vax_group(lp, x, 1) + total_vax_group(lp, x, 2)

total_production(x) == x.V_prime[1] + x.V_prime[2]

\* the constraints, by the names build_model gives them
Min_Vax_Allocation(lp, x) ==
    /\ 5 * total_vax_group(lp, x, 1) >= total_vax_all(lp, x)
    /\ 5 * total_vax_group(lp, x, 2) >= total_vax_all(lp, x)

Vaccine_Supply_Demand_Balance(lp, x) == 10 * total_vax_all(lp, x) <= total_production(x)

Production_Capacity(lp, x) == total_production(x) <= L * 1000

Min_Vaccination(x) == \A j \in Groups : x.U1[j] >= 5 /\ x.U2[j] >= 5

Max_Vaccination(x) == \A j \in Groups : x.U1[j] <= 95 /\ x.U2[j] <= 95

\* a model without the Dose2_Limit_Group constraints
Dose2_Limit_dropped(x) == \A j \in Groups : x.U2[j] <= 100

Dose2_Limit(x) == \A j \in Groups : x.U2[j] <= x.U1[j]

\* producer constraints that let one manufacturer supply everything
Producer_Share_any(x) ==
    \A i \in 1..num_manufacturers :
        /\ x.V_prime[i] >= 0
        /\ x.V_prime[i] <= total_production(x)

\* LpVariable(f"V_prime_{i}", lowBound=0)
V_prime_Bounds(x) == \A i \in 1..num_manufacturers : x.V_prime[i] >= 0

Producer_Share(x) ==
    \A i \in 1..num_manufacturers :
        /\ 10 * x.V_prime[i] >= total_production(x)
        /\ 10 * x.V_prime[i] <= 9 * total_production(x)

Max_Ratio_Group2(x) == x.U1[2] <= 10 * x.U1[1] /\ x.U2[2] <= 10 * x.U2[1]

\* Difference_U >= 0 bounds both signed differences and is at most 0.9
Max_Total_Vaccine_Diff(x) ==
    \E diff \in {0, Abs(x.U1[2] + x.U2[2] - x.U1[1] - x.U2[1]), 90} :
        /\ x.U1[2] + x.U2[2] - x.U1[1] - x.U2[1] <= diff
        /\ x.U1[1] + x.U2[1] - x.U1[2] - x.U2[2] <= diff
        /\ diff <= 90

\* the constraints on U alone, and those involving V_prime
coverage_constraints(x) ==
    /\ Min_Vaccination(x)
    /\ Max_Vaccination(x)
    /\ Dose2_Limit(x)
    /\ Max_Ratio_Group2(x)
    /\ Max_Total_Vaccine_Diff(x)

production_constraints(lp, x) ==
    /\ Min_Vax_Allocation(lp, x)
    /\ Vaccine_Supply_Demand_Balance(lp, x)
    /\ Production_Capacity(lp, x)
    /\ Producer_Share(x)
    /\ V_prime_Bounds(x)


(***************************************************************************)
(* The external LP solver (PULP_CBC_CMD), as a capability: it returns a    *)
(* status and, when Optimal, a feasible assignment that minimises the      *)
(* objective.  The assignments it searches are a finite lattice that       *)
(* reaches beyond every bound the constraints set; ties between optimal    *)
(* assignments and the status reported for a problem without a feasible    *)
(* assignment are fixed properties of the solver (the variable solver).    *)
(***************************************************************************)
ULevels == {0, 5, 95, 100}

\* manufacturer 1's share of the production, in tenths
ShareLevels == {0, 1, 5, 9, 10}

CoverageLattice ==
    {[U1 |-> <<a, b>>, U2 |-> <<c, e>>] :
        a \in ULevels, b \in ULevels, c \in ULevels, e \in ULevels}

\* total production levels tried for a coverage u (hundredths of a dose)
ProductionLevels(lp, u) ==
    {-(L * 100), 0, total_vax_group(lp, u, 1) + total_vax_group(lp, u, 2), L * 100, L * 150}

Lattice(lp, u) ==
    {[U1 |-> u.U1, U2 |-> u.U2, V_prime |-> <<tot * sh, tot * (10 - sh)>>] :
        tot \in ProductionLevels(lp, u), sh \in ShareLevels}

FeasibleSet(lp) ==
    UNION {{x \in Lattice(lp, u) : production_constraints(lp, x)} :
           u \in {v \in CoverageLattice : coverage_constraints(v)}}

Key(x) == <<x.U1[1], x.U1[2], x.U2[1], x.U2[2], x.V_prime[1], x.V_prime[2]>>

RECURSIVE KeyLeq(_, _, _)
\* lexicographic order on keys, from position n
KeyLeq(a, b, n) ==
    IF n > Len(a) THEN TRUE
    ELSE IF a[n] < b[n] THEN TRUE
    ELSE IF a[n] > b[n] THEN FALSE
    ELSE KeyLeq(a, b, n + 1)

SolverKinds ==
    {[tie |-> "lo", infeasible |-> "Infeasible"],
     [tie |-> "hi", infeasible |-> "Undefined"]}

\* the feasible assignments with their objective values
Scored(lp) == {[x |-> x, obj |-> combined_objective(lp, x)] : x \in FeasibleSet(lp)}

\* those of the least objective value
Optimal(scored) == {s \in scored : \A t \in scored : WLeq(s.obj, t.obj)}

\* the optimal assignment this solver reports
Pick(optimal, sv) ==
    IF sv.tie = "lo"
    THEN CHOOSE s \in optimal : \A t \in optimal : KeyLeq(Key(s.x), Key(t.x), 1)
    ELSE CHOOSE s \in optimal : \A t \in optimal : KeyLeq(Key(t.x), Key(s.x), 1)

\* self.model.solve(...): the status and the values of the variables
Solve(lp, sv) ==
    IF FeasibleSet(lp) = {}
    THEN [status |-> sv.infeasible]
    ELSE CHOOSE sol \in {[status |-> "Optimal", x |-> pick.x, objective |-> pick.obj] :
                            pick \in {Pick(Optimal(Scored(lp)), sv)}} : TRUE


(***************************************************************************)
(* solve_model                                                             *)
(***************************************************************************)
LpStatusOptimal == "Optimal"

LpStatusNotSolved == "Not Solved"

RECURSIVE GCD(_, _)
GCD(a, b) == IF b = 0 THEN a ELSE GCD(b, a % b)

\* the fraction n / d of non-negative integers, d > 0, in lowest terms
Fraction(n, d) == [n |-> n \div GCD(n, d), d |-> d \div GCD(n, d)]

NaN == [nan |-> TRUE]

\* min(allocation_ratio_dose1 / population_ratio_group1, 1.0) with
\* allocation_ratio_dose1 = dose1_group1 / total_dose1 and
\* population_ratio_group1 = pop1 / pop_all, all four numpy scalars: 0 / 0 is
\* nan, x / 0 is inf for x > 0, and min(nan, 1.0) is nan
population_effectiveness(dose1_group1, total_dose1, pop1, pop_all) ==
    IF total_dose1 = 0 \/ pop_all = 0
    THEN NaN
    ELSE IF pop1 = 0
    THEN (IF dose1_group1 = 0 THEN NaN ELSE Fraction(1, 1))
    ELSE CHOOSE v \in
            UNION {{IF alloc.n * pop.d >= alloc.d * pop.n
                    THEN Fraction(1, 1)
                    ELSE Fraction(alloc.n * pop.d, alloc.d * pop.n) :
                        pop \in {Fraction(pop1, pop_all)}} :
                   alloc \in {Fraction(dose1_group1, total_dose1)}} : TRUE

\* the dict solve_model returns for the optimum x
result_record(lp, x, obj, d, ww, t1, t2) ==
    LET total_susceptible_group(j)      == SumDays(d.S[j], PyRange(t1[j], t2[j], 1))
        total_vaccinated_dose1_group(j) == SumDays(d.V1[j], PyRange(t2[j], end_time[j] + 1, 1))
    IN  [U1               |-> x.U1,
         U2               |-> x.U2,
         V_prime          |-> x.V_prime,
         objective_value  |-> obj,
         objective1_value |-> objective1(lp, x),
         objective2_value |-> objective2(lp, x),
         objective3_value |-> objective3(lp, x),
         weights          |-> ww,
         tau1             |-> t1,
         tau2             |-> t2,
         equity_metrics   |->
            [vaccine_dose1_group1 |-> x.U1[1] * total_susceptible_group(1),
             vaccine_dose1_group2 |-> x.U1[2] * total_susceptible_group(2),
             vaccine_dose2_group1 |-> x.U2[1] * total_vaccinated_dose1_group(1),
             vaccine_dose2_group2 |-> x.U2[2] * total_vaccinated_dose1_group(2),
             equity_diff_dose1    |-> Abs(x.U1[1] - x.U1[2]),
             equity_diff_dose2    |-> Abs(x.U2[1] - x.U2[2]),
             population_effectiveness |->
                population_effectiveness(
                    x.U1[1] * total_susceptible_group(1),
                    x.U1[1] * total_susceptible_group(1) + x.U1[2] * total_susceptible_group(2),
                    d.S[1][0], d.S[1][0] + d.S[2][0])]]

\* producer1_cost / total_cost: Python floats, ZeroDivisionError at 0
producer_report_raises(x) == x.V_prime[1] * P[1] + x.V_prime[2] * P[2] = 0

\* vaccine_dose1_group1 / total_dose1 and vaccine_dose2_group1 / total_dose2:
\* a sum over an empty range is the Python int 0, over a non-empty range a
\* numpy scalar; only Python floats raise ZeroDivisionError
equity_report_raises(t1, t2) ==
    \/ \A j \in Groups : Len(PyRange(t1[j], t2[j], 1)) = 0
    \/ \A j \in Groups : Len(PyRange(t2[j], end_time[j] + 1, 1)) = 0

\* solve_model on the model lp, with self.tau1 = t1 and self.tau2 = t2:
\* the status, whether it raised, and the value it returned
solve_model(lp, d, ww, t1, t2, sv) ==
    CHOOSE out \in
        {IF sol.status = LpStatusOptimal
         THEN IF producer_report_raises(sol.x) \/ equity_report_raises(t1, t2)
              THEN [status |-> sol.status, raised |-> TRUE, results |-> None]
              ELSE [status |-> sol.status, raised |-> FALSE,
                    results |-> result_record(lp, sol.x, sol.objective, d, ww, t1, t2)]
         ELSE [status |-> sol.status, raised |-> FALSE, results |-> None] :
         sol \in {Solve(lp, sv)}} : TRUE


(***************************************************************************)
(* find_optimal_timing                                                     *)
(***************************************************************************)
\* the timing-search configurations the model is run on: every accepted
\* file holds the nine keys, with whatever integer values
GroupRanges ==
    {[tmin |-> a, tmax |-> b, gmin |-> c, gmax |-> e] :
        a \in {-1, 0, MaxTau1}, b \in {0, 1}, c \in {0, 1, MaxGap + 1}, e \in {-1, MaxGap}}

Group2Ranges ==
    {[tmin |-> 0, tmax |-> 1, gmin |-> 1, gmax |-> MaxGap + 1],
     [tmin |-> 1, tmax |-> 1, gmin |-> 0, gmax |-> 1],
     [tmin |-> MaxTau1, tmax |-> 0, gmin |-> MaxGap + 1, gmax |-> -1]}

TimeSteps == {-1, 0, 1, 2}

Config(g1, g2, st) ==
    [tau1_group1_min |-> g1.tmin, tau1_group1_max |-> g1.tmax,
     tau1_group2_min |-> g2.tmin, tau1_group2_max |-> g2.tmax,
     gap_group1_min  |-> g1.gmin, gap_group1_max  |-> g1.gmax,
     gap_group2_min  |-> g2.gmin, gap_group2_max  |-> g2.gmax,
     time_step       |-> st]

Configs == {Config(g1, g2, st) : g1 \in GroupRanges, g2 \in Group2Ranges, st \in TimeSteps}

\* range(tau1_1_min, tau1_1_max + 1, time_step)
tau1_1_range(c) == PyRange(c.tau1_group1_min, c.tau1_group1_max + 1, c.time_step)

tau1_2_range(c) == PyRange(c.tau1_group2_min, c.tau1_group2_max + 1, c.time_step)

\* range(tau2_1_min, tau2_1_max + 1, time_step) for a tau1_1
tau2_1_range(c, t) ==
    PyRange(t + c.gap_group1_min, Min(t + c.gap_group1_max, T - 1) + 1, c.time_step)

tau2_2_range(c, t) ==
    PyRange(t + c.gap_group2_min, Min(t + c.gap_group2_max, T - 1) + 1, c.time_step)

\* the points <<tau1_1, tau2_1, tau1_2, tau2_2>> of the four nested loops, in
\* the order the loops reach them
Grid(c) ==
    LET loop4(a, b, e) == LET r == tau2_2_range(c, e)
                          IN  [i \in 1..Len(r) |-> <<a, b, e, r[i]>>]
        loop3(a, b)    == LET r == tau1_2_range(c)
                          IN  Concat([i \in 1..Len(r) |-> loop4(a, b, r[i])], Len(r))
        loop2(a)       == LET r == tau2_1_range(c, a)
                          IN  Concat([i \in 1..Len(r) |-> loop3(a, r[i])], Len(r))
        loop1          == LET r == tau1_1_range(c)
                          IN  Concat([i \in 1..Len(r) |-> loop2(r[i])], Len(r))
    IN  loop1

\* if tau2_1 >= self.T or tau2_2 >= self.T: continue
out_of_bounds(p) == p[2] >= T \/ p[4] >= T

\* the counting loops: points with tau2_1 < self.T and tau2_2 < self.T
count_combinations(c) ==
    LET g == Grid(c) IN Cardinality({i \in 1..Len(g) : g[i][2] < T /\ g[i][4] < T})

\* best_cost: float('inf') or an objective value
Inf == [inf |-> TRUE, v |-> WZero]

Cost(v) == [inf |-> FALSE, v |-> v]

\* a comparison that also replaces the best on an equal objective
improves_or_equal(obj, best) == best.inf \/ WLeq(obj, best.v)

\* results['objective_value'] < best_cost
improves(obj, best) == best.inf \/ WLess(obj, best.v)

\* a best_timing dict with tau2_1 and tau1_2 taken from each other's loop variable
Timing_swapped(p) == [tau1_1 |-> p[1], tau2_1 |-> p[3], tau1_2 |-> p[2], tau2_2 |-> p[4]]

\* best_timing = {'tau1_1': tau1_1, 'tau2_1': tau2_1, 'tau1_2': tau1_2, 'tau2_2': tau2_2}
Timing(p) == [tau1_1 |-> p[1], tau2_1 |-> p[2], tau1_2 |-> p[3], tau2_2 |-> p[4]]

NotReturned == [kind |-> "running"]

Returned(v) == [kind |-> "returned", value |-> v]

Raised(e) == [kind |-> "raised", exc |-> e]

\* find_optimal_timing, up to the first grid point
StartSearch ==
    /\ pc = "ready"
    /\ IF config = None
       THEN /\ pc' = "done"
            /\ ret' = Returned(None)
            /\ UNCHANGED <<grid, pos, total_combinations, best_cost, best_timing, best_results>>
       ELSE IF config.time_step = 0
       THEN \* range() arg 3 must not be zero
            /\ pc' = "raised"
            /\ ret' = Raised("ValueError")
            /\ UNCHANGED <<grid, pos, total_combinations, best_cost, best_timing, best_results>>
       ELSE /\ pc' = "search"
            /\ grid' = Grid(config)
            /\ pos' = 1
            /\ total_combinations' = count_combinations(config)
            /\ best_cost' = Inf
            /\ best_timing' = None
            /\ best_results' = None
            /\ ret' = NotReturned
    /\ UNCHANGED <<sensitivity_results, weights_file, w, weights_valid, data, config, tau1, tau2, model,
                   status, solver, results, calls>>

\* one pass of the innermost loop body for a point beyond the series
SkipPoint ==
    /\ pc = "search"
    /\ pos <= Len(grid)
    /\ out_of_bounds(grid[pos])
    /\ pos' = pos + 1
    /\ UNCHANGED <<sensitivity_results, weights_file, w, weights_valid, data, config, tau1, tau2, model,
                   status, solver, pc, grid, total_combinations, best_cost, best_timing,
                   best_results, results, ret, calls>>

\* one pass of the innermost loop body: build_model, solve_model, compare
SolvePoint ==
    /\ pc = "search"
    /\ pos <= Len(grid)
    /\ ~out_of_bounds(grid[pos])
    /\ LET p            == grid[pos]
           current_tau1 == <<p[1], p[3]>>
           current_tau2 == <<p[2], p[4]>>
       IN  /\ tau1' = current_tau1
           /\ tau2' = current_tau2
           /\ IF build_raises(current_tau1, current_tau2)
              THEN /\ model' = EmptyLP
                   /\ status' = LpStatusNotSolved
                   /\ pc' = "raised"
                   /\ ret' = Raised("IndexError")
                   /\ calls' = Append(calls, [op |-> "build_model", tau1 |-> current_tau1,
                                              tau2 |-> current_tau2, status |-> LpStatusNotSolved,
                                              results |-> None])
                   /\ UNCHANGED <<pos, best_cost, best_timing, best_results, results>>
              ELSE \E lp \in {LP(data, w, current_tau1, current_tau2)} :
                   \E out \in {solve_model(lp, data, w, current_tau1, current_tau2, solver)} :
                       /\ model' = lp
                       /\ status' = out.status
                       /\ calls' = Append(calls, [op |-> "solve_model", tau1 |-> current_tau1,
                                                  tau2 |-> current_tau2, status |-> out.status,
                                                  results |-> out.results])
                       /\ IF out.raised
                          THEN /\ pc' = "raised"
                               /\ ret' = Raised("ZeroDivisionError")
                               /\ UNCHANGED <<pos, best_cost, best_timing, best_results, results>>
                          ELSE /\ results' = out.results
                               /\ pos' = pos + 1
                               /\ IF out.results # None
                                     /\ improves(out.results.objective_value, best_cost)
                                  THEN /\ best_cost' = Cost(out.results.objective_value)
                                       /\ best_timing' = Timing(p)
                                       /\ best_results' = out.results
                                  ELSE UNCHANGED <<best_cost, best_timing, best_results>>
                               /\ UNCHANGED <<pc, ret>>
    /\ UNCHANGED <<sensitivity_results, weights_file, w, weights_valid, data, config, solver, grid,
                   total_combinations>>

\* after the loops: if best_timing: ... return best_timing, best_results
FinishSearch ==
    /\ pc = "search"
    /\ pos > Len(grid)
    /\ pc' = "done"
    /\ ret' = IF best_timing # None
              THEN Returned([timing |-> best_timing, results |-> best_results])
              ELSE Returned(None)
    /\ UNCHANGED <<sensitivity_results, weights_file, w, weights_valid, data, config, tau1, tau2, model,
                   status, solver, grid, pos, total_combinations, best_cost, best_timing,
                   best_results, results, calls>>

\* timing lists that give each group the other group's days
timing_lists_crossed(bt) ==
    [tau1 |-> <<bt.tau1_2, bt.tau1_1>>, tau2 |-> <<bt.tau2_2, bt.tau2_1>>]

\* tau1 = [optimal_timing['tau1_1'], optimal_timing['tau1_2']]
\* tau2 = [optimal_timing['tau2_1'], optimal_timing['tau2_2']]
timing_lists(bt) ==
    [tau1 |-> <<bt.tau1_1, bt.tau1_2>>, tau2 |-> <<bt.tau2_1, bt.tau2_2>>]

\* run_with_optimal_timing, after find_optimal_timing returned: build_model
\* and solve_model for the best timing, or build_model() on self.tau1 and
\* self.tau2 as they are when there is none (the reports, plots and files
\* that follow a result are not part of the state)
RerunBest ==
    /\ pc = "done"
    /\ \E tm \in {IF ret.value # None
                   THEN timing_lists(ret.value.timing)
                   ELSE [tau1 |-> tau1, tau2 |-> tau2]} :
          /\ tau1' = tm.tau1
          /\ tau2' = tm.tau2
          /\ IF build_raises(tm.tau1, tm.tau2)
             THEN /\ model' = EmptyLP
                  /\ status' = LpStatusNotSolved
                  /\ pc' = "rerun_raised"
                  /\ calls' = Append(calls, [op |-> "build_model", tau1 |-> tm.tau1,
                                             tau2 |-> tm.tau2, status |-> LpStatusNotSolved,
                                             results |-> None])
                  /\ UNCHANGED results
             ELSE \E lp \in {LP(data, w, tm.tau1, tm.tau2)} :
                  \E out \in {solve_model(lp, data, w, tm.tau1, tm.tau2, solver)} :
                      /\ model' = lp
                      /\ status' = out.status
                      /\ calls' = Append(calls, [op |-> "solve_model", tau1 |-> tm.tau1,
                                                 tau2 |-> tm.tau2, status |-> out.status,
                                                 results |-> out.results])
                      /\ IF out.raised
                         THEN pc' = "rerun_raised" /\ UNCHANGED results
                         ELSE pc' = "rerun" /\ results' = out.results
    /\ UNCHANGED <<sensitivity_results, weights_file, w, weights_valid, data, config, solver, grid, pos,
                   total_combinations, best_cost, best_timing, best_results, ret>>

\* the runs of the model: series, weights file and solver
Scenarios ==
    {[data |-> DataTypical,    file |-> NoFile,                            tie |-> "lo"],
     [data |-> DataTypical,    file |-> WFile(Num(0), Num(500), Num(500)), tie |-> "hi"],
     [data |-> DataQuiet,      file |-> WFile(Num(0), Num(500), Num(500)), tie |-> "lo"],
     [data |-> DataLateWave,   file |-> WFile(Num(0), Num(500), Num(500)), tie |-> "hi"],
     [data |-> DataGroup1Late, file |-> NoFile,                            tie |-> "lo"],
     [data |-> DataNoDemand,   file |-> NoFile,                            tie |-> "lo"],
     [data |-> DataNoDemand,   file |-> WFile(Num(0), Num(500), Num(500)), tie |-> "hi"]}

\* the state after __init__
Init ==
    /\ \E sc \in Scenarios :
          /\ weights_file = sc.file
          /\ data = sc.data
          /\ solver \in {sv \in SolverKinds : sv.tie = sc.tie}
    /\ w = load_weights(weights_file).w
    /\ weights_valid = load_weights(weights_file).weights_valid
    /\ config \in Configs \cup {None}
    /\ tau1 = default_tau1
    /\ tau2 = default_tau2
    /\ model = None
    /\ status = LpStatusNotSolved
    /\ pc = "ready"
    /\ grid = <<>>
    /\ pos = 0
    /\ total_combinations = 0
    /\ best_cost = Inf
    /\ best_timing = None
    /\ best_results = None
    /\ results = None
    /\ ret = NotReturned
    /\ calls = <<>>
    /\ sensitivity_results = None

Next == StartSearch \/ SkipPoint \/ SolvePoint \/ FinishSearch \/ RerunBest

Spec == Init /\ [][Next]_vars

(***************************************************************************)
(* load_weights on its own, over every modelled weights file               *)
(***************************************************************************)
LoadWeights ==
    /\ pc = "load_weights"
    /\ w' = load_weights(weights_file).w
    /\ weights_valid' = load_weights(weights_file).weights_valid
    /\ pc' = "loaded"
    /\ UNCHANGED <<sensitivity_results, weights_file, data, config, tau1, tau2, model, status, solver, grid,
                   pos, total_combinations, best_cost, best_timing, best_results, results,
                   ret, calls>>

InitWeights ==
    /\ weights_file \in WeightFiles
    /\ w = default_weights
    /\ weights_valid = TRUE
    /\ data = DataTypical
    /\ config = None
    /\ tau1 = default_tau1
    /\ tau2 = default_tau2
    /\ model = None
    /\ status = LpStatusNotSolved
    /\ solver \in {s \in SolverKinds : s.tie = "lo"}
    /\ pc = "load_weights"
    /\ grid = <<>>
    /\ pos = 0
    /\ total_combinations = 0
    /\ best_cost = Inf
    /\ best_timing = None
    /\ best_results = None
    /\ results = None
    /\ ret = NotReturned
    /\ calls = <<>>
    /\ sensitivity_results = None

NextWeights == LoadWeights

SpecWeights == InitWeights /\ [][NextWeights]_vars


(***************************************************************************)
(* build_model(tau1, tau2) followed by solve_model() on one timing, for    *)
(* series of 100 time points with 1000 people in each group, 10 of them    *)
(* infected at every time point                                            *)
(***************************************************************************)
\* a series of n time points, c at each
Const(n, c) == [t \in 0..(n - 1) |-> c]

\* s[j] susceptible and v[j] vaccinated with dose 1 in group j at every time
\* point, 10 infected, the rest of the 1000 recovered
ScenarioData(s, v) ==
    [T  |-> 100,
     S  |-> <<Const(100, s[1]), Const(100, s[2])>>,
     I  |-> <<Const(100, 10), Const(100, 10)>>,
     Q  |-> <<Const(100, 0), Const(100, 0)>>,
     V1 |-> <<Const(100, v[1]), Const(100, v[2])>>,
     V2 |-> <<Const(100, 0), Const(100, 0)>>,
     R  |-> <<Const(100, 990 - s[1] - v[1]), Const(100, 990 - s[2] - v[2])>>]

ScenarioDataSets ==
    {ScenarioData(<<a, b>>, <<c, c>>) :
        a \in {0, 20, 300, 500, 990}, b \in {0, 20, 300, 500, 990}, c \in {0, 10, 490}}

\* build_model(tau1=t1, tau2=t2)
BuildModel(t1, t2) ==
    /\ pc = "scenario"
    /\ tau1' = t1
    /\ tau2' = t2
    /\ status' = LpStatusNotSolved
    /\ IF build_raises(t1, t2)
       THEN /\ model' = EmptyLP
            /\ pc' = "raised"
            /\ ret' = Raised("IndexError")
       ELSE /\ model' = LP(data, w, t1, t2)
            /\ pc' = "built"
            /\ UNCHANGED ret
    /\ UNCHANGED <<sensitivity_results, weights_file, w, weights_valid, data, config, solver, grid, pos,
                   total_combinations, best_cost, best_timing, best_results, results, calls>>

\* solve_model() on the model just built
SolveModel ==
    /\ pc = "built"
    /\ \E out \in {solve_model(model, data, w, tau1, tau2, solver)} :
          /\ status' = out.status
          /\ calls' = Append(calls, [op |-> "solve_model", tau1 |-> tau1, tau2 |-> tau2,
                                     status |-> out.status, results |-> out.results])
          /\ IF out.raised
             THEN /\ pc' = "raised"
                  /\ ret' = Raised("ZeroDivisionError")
                  /\ UNCHANGED results
             ELSE /\ pc' = "solved"
                  /\ ret' = Returned(out.results)
                  /\ results' = out.results
    /\ UNCHANGED <<sensitivity_results, weights_file, w, weights_valid, data, config, tau1, tau2, model, solver,
                   grid, pos, total_combinations, best_cost, best_timing, best_results>>

InitScenario ==
    /\ weights_file = NoFile
    /\ w = load_weights(weights_file).w
    /\ weights_valid = load_weights(weights_file).weights_valid
    /\ data \in {d \in ScenarioDataSets :
                    \A j \in Groups : d.S[j][0] + d.V1[j][0] <= 990}
    /\ config = None
    /\ tau1 = default_tau1
    /\ tau2 = default_tau2
    /\ model = None
    /\ status = LpStatusNotSolved
    /\ solver \in SolverKinds
    /\ pc = "scenario"
    /\ grid = <<>>
    /\ pos = 0
    /\ total_combinations = 0
    /\ best_cost = Inf
    /\ best_timing = None
    /\ best_results = None
    /\ results = None
    /\ ret = NotReturned
    /\ calls = <<>>
    /\ sensitivity_results = None

NextScenario == BuildModel(<<10, 10>>, <<40, 40>>) \/ SolveModel

SpecScenario == InitScenario /\ [][NextScenario]_vars


(***************************************************************************)
(* load_config                                                             *)
(***************************************************************************)
required_keys ==
    {"tau1_group1_min", "tau1_group1_max", "tau1_group2_min", "tau1_group2_max",
     "gap_group1_min", "gap_group1_max", "gap_group2_min", "gap_group2_max", "time_step"}

\* the values a configuration file gives to the keys it holds
FileValues ==
    Config([tmin |-> 0, tmax |-> 1, gmin |-> 1, gmax |-> MaxGap],
           [tmin |-> 0, tmax |-> 1, gmin |-> 1, gmax |-> MaxGap], 1)

\* the configuration file: absent, not parsable, or holding a JSON value,
\* which is a number, null, a dict holding the keys K, a list of the key
\* names K, or a string in which the key names K occur
ConfigFiles ==
    {[kind |-> "absent"], [kind |-> "bad_json"],
     [kind |-> "json", value |-> [t |-> "num"]],
     [kind |-> "json", value |-> [t |-> "null"]]}
    \cup {[kind |-> "json", value |-> [t |-> "dict", d |-> [k \in K |-> FileValues[k]]]] :
             K \in SUBSET required_keys}
    \cup {[kind |-> "json", value |-> [t |-> tt, names |-> K]] :
             tt \in {"list", "str"}, K \in SUBSET required_keys}

\* key not in self.config raises TypeError for a value that is not a container
membership_raises(v) == v.t \in {"num", "null"}

\* [key for key in required_keys if key not in self.config]
missing_keys(v) ==
    IF v.t = "dict" THEN required_keys \ DOMAIN v.d ELSE required_keys \ v.names

\* self.config['tau1_group1_min'], ... in the report: KeyError for a dict
\* without the key, TypeError for a list or a string
subscript_raises(v) ==
    IF v.t = "dict" THEN required_keys \ DOMAIN v.d # {} ELSE TRUE

\* what self.config holds for a loaded JSON value
config_value(v) == IF v.t = "dict" THEN v.d ELSE v

\* a loader that only requires time_step
load_config_lenient(f, old) ==
    IF f.kind = "absent"
    THEN [config |-> old, exc |-> "FileNotFoundError"]
    ELSE IF f.kind = "bad_json"
    THEN [config |-> old, exc |-> "ValueError"]
    ELSE IF f.value.t = "dict" /\ "time_step" \in DOMAIN f.value.d
    THEN [config |-> config_value(f.value), exc |-> "none"]
    ELSE [config |-> config_value(f.value), exc |-> "Exception"]

\* load_config on the file f, self.config being old: the new self.config and
\* the exception that leaves the method ("none" when it returns)
load_config(f, old) ==
    IF f.kind = "absent"
    THEN [config |-> old, exc |-> "FileNotFoundError"]
    ELSE IF f.kind = "bad_json"
    THEN [config |-> old, exc |-> "ValueError"]
    ELSE IF membership_raises(f.value)
    THEN [config |-> config_value(f.value), exc |-> "Exception"]
    ELSE IF missing_keys(f.value) # {}
    THEN [config |-> config_value(f.value), exc |-> "Exception"]
    ELSE IF subscript_raises(f.value)
    THEN [config |-> config_value(f.value), exc |-> "Exception"]
    ELSE [config |-> config_value(f.value), exc |-> "none"]

LoadConfig ==
    /\ pc = "load_config"
    /\ \E f \in ConfigFiles :
          \E out \in {load_config(f, config)} :
              /\ config' = out.config
              /\ pc' = IF out.exc = "none" THEN "config_loaded" ELSE "config_raised"
              /\ ret' = IF out.exc = "none" THEN Returned(None) ELSE Raised(out.exc)
              /\ calls' = Append(calls, [op |-> "load_config", file |-> f])
    /\ UNCHANGED <<sensitivity_results, weights_file, w, weights_valid, data, tau1, tau2, model, status, solver,
                   grid, pos, total_combinations, best_cost, best_timing, best_results,
                   results>>

\* the state of __init__ when it calls load_config
InitConfig ==
    /\ weights_file = NoFile
    /\ w = load_weights(weights_file).w
    /\ weights_valid = load_weights(weights_file).weights_valid
    /\ data = DataTypical
    /\ config = None
    /\ tau1 = default_tau1
    /\ tau2 = default_tau2
    /\ model = None
    /\ status = LpStatusNotSolved
    /\ solver \in {s \in SolverKinds : s.tie = "lo"}
    /\ pc = "load_config"
    /\ grid = <<>>
    /\ pos = 0
    /\ total_combinations = 0
    /\ best_cost = Inf
    /\ best_timing = None
    /\ best_results = None
    /\ results = None
    /\ ret = NotReturned
    /\ calls = <<>>
    /\ sensitivity_results = None

NextConfig == LoadConfig

SpecConfig == InitConfig /\ [][NextConfig]_vars

(***************************************************************************)
(* analyze_timing_sensitivity: the tau1 sweep, the tau1-tau2 cost matrix   *)
(* and the build_model() that ends the method                              *)
(***************************************************************************)
\* tau1_range = range(30, 51, 3)
tau1_range == PyRange(30, 51, 3)

\* tau1_test_range = range(30, 46, 3)
tau1_test_range == PyRange(30, 46, 3)

\* tau2_test_range = range(75, 126, 8)
tau2_test_range == PyRange(75, 126, 8)

\* series of n time points: s susceptible and 10 infected in each group at
\* every time point, the rest of the 1000 recovered
SweepData(n, s) ==
    [T  |-> n,
     S  |-> <<Const(n, s), Const(n, s)>>,
     I  |-> <<Const(n, 10), Const(n, 10)>>,
     Q  |-> <<Const(n, 0), Const(n, 0)>>,
     V1 |-> <<Const(n, 0), Const(n, 0)>>,
     V2 |-> <<Const(n, 0), Const(n, 0)>>,
     R  |-> <<Const(n, 990 - s), Const(n, 990 - s)>>]

\* self.build_model(tau1=t1, tau2=t2) followed by self.solve_model(): the
\* model and status they leave, whether one of them raised, and the value
\* solve_model returned
build_and_solve(d, ww, t1, t2, sv) ==
    IF build_raises(t1, t2)
    THEN [op |-> "build_model", model |-> EmptyLP, status |-> LpStatusNotSolved,
          raised |-> TRUE, results |-> None]
    ELSE CHOOSE tr \in UNION {{[op |-> "solve_model", model |-> lp, status |-> out.status,
                                raised |-> out.raised, results |-> out.results] :
                                  out \in {solve_model(lp, d, ww, t1, t2, sv)}} :
                              lp \in {LP(d, ww, t1, t2)}} : TRUE

\* a cost matrix that takes a failed point for a solved one of cost zero
matrix_entry_zero_on_failure(tr) ==
    IF ~tr.raised /\ tr.results # None
    THEN Cost(tr.results.objective_value)
    ELSE Cost(WZero)

\* what the try block of the matrix loop appends to row:
\* temp_results['objective_value'] if temp_results, float('inf') otherwise
\* and in the except branch
matrix_entry(tr) ==
    IF ~tr.raised /\ tr.results # None
    THEN Cost(tr.results.objective_value)
    ELSE Inf

\* the method up to its first loop
StartSensitivity ==
    /\ pc = "sensitivity"
    /\ sensitivity_results' = [tau1_values |-> <<>>, total_costs |-> <<>>,
                               cost_matrix |-> <<>>, row |-> <<>>]
    /\ pos' = 1
    /\ pc' = "tau1_sweep"
    /\ UNCHANGED <<weights_file, w, weights_valid, data, config, tau1, tau2, model, status,
                   solver, grid, total_combinations, best_cost, best_timing, best_results,
                   results, ret, calls>>

\* one pass of the loop over tau1_range
SweepTau1 ==
    /\ pc = "tau1_sweep"
    /\ \E t1v \in {tau1_range[pos]} :
       \E t2v \in {Max(t1v + 45, 80)} :
       \E tr \in {build_and_solve(data, w, <<t1v, t1v>>, <<t2v, t2v - 5>>, solver)} :
          /\ tau1' = <<t1v, t1v>>
          /\ tau2' = <<t2v, t2v - 5>>
          /\ model' = tr.model
          /\ status' = tr.status
          /\ calls' = Append(calls, [op |-> tr.op, tau1 |-> <<t1v, t1v>>,
                                     tau2 |-> <<t2v, t2v - 5>>, status |-> tr.status,
                                     results |-> tr.results])
          /\ sensitivity_results' =
                IF ~tr.raised /\ tr.results # None
                THEN [sensitivity_results EXCEPT
                         !.tau1_values = Append(@, t1v),
                         !.total_costs = Append(@, tr.results.objective_value)]
                ELSE sensitivity_results
    /\ IF pos = Len(tau1_range)
       THEN pc' = "cost_matrix" /\ pos' = 1
       ELSE pos' = pos + 1 /\ UNCHANGED pc
    /\ UNCHANGED <<weights_file, w, weights_valid, data, config, solver, grid,
                   total_combinations, best_cost, best_timing, best_results, results, ret>>

\* one pass of the inner loop of the cost matrix (pos counts the passes, row
\* by row), with cost_matrix.append(row) after the last pass of a row
MatrixPoint ==
    /\ pc = "cost_matrix"
    /\ \E t2v \in {tau2_test_range[((pos - 1) \div Len(tau1_test_range)) + 1]} :
       \E t1v \in {tau1_test_range[((pos - 1) % Len(tau1_test_range)) + 1]} :
       \E tr \in {IF t2v > t1v + 40
                  THEN build_and_solve(data, w, <<t1v, t1v>>, <<t2v, t2v - 5>>, solver)
                  ELSE None} :
       \E row \in {Append(sensitivity_results.row,
                          IF t2v > t1v + 40 THEN matrix_entry(tr) ELSE Inf)} :
          /\ IF t2v > t1v + 40
             THEN /\ tau1' = <<t1v, t1v>>
                  /\ tau2' = <<t2v, t2v - 5>>
                  /\ model' = tr.model
                  /\ status' = tr.status
                  /\ calls' = Append(calls, [op |-> tr.op, tau1 |-> <<t1v, t1v>>,
                                             tau2 |-> <<t2v, t2v - 5>>, status |-> tr.status,
                                             results |-> tr.results])
             ELSE UNCHANGED <<tau1, tau2, model, status, calls>>
          /\ sensitivity_results' =
                IF pos % Len(tau1_test_range) = 0
                THEN [sensitivity_results EXCEPT !.cost_matrix = Append(@, row),
                                                 !.row = <<>>]
                ELSE [sensitivity_results EXCEPT !.row = row]
    /\ IF pos = Len(tau2_test_range) * Len(tau1_test_range)
       THEN pc' = "rebuild" /\ UNCHANGED pos
       ELSE pos' = pos + 1 /\ UNCHANGED pc
    /\ UNCHANGED <<weights_file, w, weights_valid, data, config, solver, grid,
                   total_combinations, best_cost, best_timing, best_results, results, ret>>

\* self.build_model() on self.tau1 and self.tau2 as the loops left them, then
\* return sensitivity_results
RebuildModel ==
    /\ pc = "rebuild"
    /\ status' = LpStatusNotSolved
    /\ IF build_raises(tau1, tau2)
       THEN /\ model' = EmptyLP
            /\ pc' = "sensitivity_raised"
            /\ ret' = Raised("IndexError")
       ELSE /\ model' = LP(data, w, tau1, tau2)
            /\ pc' = "sensitivity_done"
            /\ ret' = Returned(sensitivity_results)
    /\ UNCHANGED <<sensitivity_results, weights_file, w, weights_valid, data, config, tau1,
                   tau2, solver, grid, pos, total_combinations, best_cost, best_timing,
                   best_results, results, calls>>

\* run(), not searching for a timing: self.build_model(), results =
\* self.solve_model(), and with a result either visualize_results(results),
\* which calls analyze_timing_sensitivity, or the standard plots, as the user
\* answers
RunSolve ==
    /\ pc = "run"
    /\ \E tr \in {build_and_solve(data, w, tau1, tau2, solver)} :
          /\ model' = tr.model
          /\ status' = tr.status
          /\ calls' = Append(calls, [op |-> tr.op, tau1 |-> tau1, tau2 |-> tau2,
                                     status |-> tr.status, results |-> tr.results])
          /\ IF tr.raised
             THEN /\ pc' = "run_raised"
                  /\ ret' = Raised(IF tr.op = "build_model" THEN "IndexError"
                                                            ELSE "ZeroDivisionError")
                  /\ UNCHANGED results
             ELSE /\ results' = tr.results
                  /\ IF tr.results = None
                     THEN pc' = "run_done" /\ ret' = Returned(None)
                     ELSE pc' \in {"sensitivity", "save"} /\ UNCHANGED ret
    /\ UNCHANGED <<sensitivity_results, weights_file, w, weights_valid, data, config, tau1,
                   tau2, solver, grid, pos, total_combinations, best_cost, best_timing,
                   best_results>>

\* self.save_results_to_json(results, ...) of run(), after the plots: the
\* output's optimal_timing is read from self.tau1 and self.tau2
SaveResults ==
    /\ pc \in {"save", "sensitivity_done"}
    /\ results # None
    /\ calls' = Append(calls, [op |-> "save_results_to_json",
                               optimal_timing |-> Timing(<<tau1[1], tau2[1], tau1[2], tau2[2]>>),
                               optimal_cost |-> results.objective_value,
                               saved |-> results])
    /\ pc' = "saved"
    /\ ret' = Returned(results)
    /\ UNCHANGED <<sensitivity_results, weights_file, w, weights_valid, data, config, tau1,
                   tau2, model, status, solver, grid, pos, total_combinations, best_cost,
                   best_timing, best_results, results>>

InitSensitivity ==
    /\ weights_file = NoFile
    /\ w = load_weights(weights_file).w
    /\ weights_valid = load_weights(weights_file).weights_valid
    /\ data \in {SweepData(n, s) : n \in {100, 130}, s \in {0, 20, 600, 990}}
    /\ config = None
    /\ tau1 = default_tau1
    /\ tau2 = default_tau2
    /\ model = None
    /\ status = LpStatusNotSolved
    /\ solver \in SolverKinds
    /\ pc \in {"run", "sensitivity"}
    /\ grid = <<>>
    /\ pos = 0
    /\ total_combinations = 0
    /\ best_cost = Inf
    /\ best_timing = None
    /\ best_results = None
    /\ results = None
    /\ ret = NotReturned
    /\ calls = <<>>
    /\ sensitivity_results = None

NextSensitivity ==
    RunSolve \/ StartSensitivity \/ SweepTau1 \/ MatrixPoint \/ RebuildModel \/ SaveResults

SpecSensitivity == InitSensitivity /\ [][NextSensitivity]_vars

(***************************************************************************)
(* build_model and solve_model of two grid points on one optimizer, in any *)
(* order that keeps each point's build_model before its solve_model        *)
(***************************************************************************)
\* the calls made so far for point k of grid
CallsOf(k, op) == {i \in 1..Len(calls) : calls[i].point = k /\ calls[i].op = op}

\* self.build_model(tau1=current_tau1, tau2=current_tau2) for point k
PointBuild(k) ==
    /\ pc = "interleaved"
    /\ CallsOf(k, "build_model") = {}
    /\ \E t1 \in {<<grid[k][1], grid[k][3]>>} :
       \E t2 \in {<<grid[k][2], grid[k][4]>>} :
          /\ tau1' = t1
          /\ tau2' = t2
          /\ model' = IF build_raises(t1, t2) THEN EmptyLP ELSE LP(data, w, t1, t2)
          /\ status' = LpStatusNotSolved
          /\ calls' = Append(calls, [op |-> "build_model", point |-> k, tau1 |-> t1,
                                     tau2 |-> t2, status |-> LpStatusNotSolved,
                                     raised |-> build_raises(t1, t2), results |-> None])
    /\ UNCHANGED <<sensitivity_results, weights_file, w, weights_valid, data, config, solver,
                   pc, grid, pos, total_combinations, best_cost, best_timing, best_results,
                   results, ret>>

\* results = self.solve_model() for point k: it solves self.model and reports
\* self.tau1 and self.tau2, whichever build_model call set them
PointSolve(k) ==
    /\ pc = "interleaved"
    /\ CallsOf(k, "build_model") # {}
    /\ CallsOf(k, "solve_model") = {}
    /\ \E out \in {solve_model(model, data, w, tau1, tau2, solver)} :
          /\ status' = out.status
          /\ results' = IF out.raised THEN results ELSE out.results
          /\ calls' = Append(calls, [op |-> "solve_model", point |-> k, tau1 |-> tau1,
                                     tau2 |-> tau2, status |-> out.status,
                                     raised |-> out.raised, results |-> out.results])
    /\ UNCHANGED <<sensitivity_results, weights_file, w, weights_valid, data, config, tau1,
                   tau2, model, solver, pc, grid, pos, total_combinations, best_cost,
                   best_timing, best_results, ret>>

\* two different points of a timing grid, both within the series
InitInterleaved ==
    /\ weights_file = NoFile
    /\ w = load_weights(weights_file).w
    /\ weights_valid = load_weights(weights_file).weights_valid
    /\ data \in DataSets
    /\ config = None
    /\ tau1 = default_tau1
    /\ tau2 = default_tau2
    /\ model = None
    /\ status = LpStatusNotSolved
    /\ solver \in SolverKinds
    /\ pc = "interleaved"
    /\ grid \in {<<p, q>> : p, q \in {<<a, b, 1, e>> : a \in {0, 1}, b \in {1, 2},
                                                     e \in {2, NumDays - 1}}}
    /\ grid[1] # grid[2]
    /\ \A k \in 1..2 : grid[k][1] < grid[k][2]
    /\ pos = 0
    /\ total_combinations = 0
    /\ best_cost = Inf
    /\ best_timing = None
    /\ best_results = None
    /\ results = None
    /\ ret = NotReturned
    /\ calls = <<>>
    /\ sensitivity_results = None

NextInterleaved == \E k \in 1..2 : PointBuild(k) \/ PointSolve(k)

SpecInterleaved == InitInterleaved /\ [][NextInterleaved]_vars

(***************************************************************************)
(* weight_sum_module.load_multiple_weights                                 *)
(***************************************************************************)
\* most items of a list in a weights file
MaxItems == 3

\* a weight set {'w1': a, 'w2': b, 'w3': c} (the name plays no part)
WeightSet(a, b, c) == [w1 |-> a, w2 |-> b, w3 |-> c]

default_weight_sets ==
    <<WeightSet(Num(330), Num(330), Num(340)), WeightSet(Num(800), Num(100), Num(100)),
      WeightSet(Num(100), Num(800), Num(100)), WeightSet(Num(100), Num(100), Num(800))>>

\* abs(w['w1'] - weight['w1']) < 0.01 and ... and abs(w['w3'] - weight['w3'])
\* < 0.01, evaluated left to right: "dup", "not", or "raise" for the TypeError
\* of a subtraction with a value that is not a number
close_weights(x, weight) ==
    IF ~IsNum(x.w1) \/ ~IsNum(weight.w1) THEN "raise"
    ELSE IF Abs(x.w1.v - weight.w1.v) >= 10 THEN "not"
    ELSE IF ~IsNum(x.w2) \/ ~IsNum(weight.w2) THEN "raise"
    ELSE IF Abs(x.w2.v - weight.w2.v) >= 10 THEN "not"
    ELSE IF ~IsNum(x.w3) \/ ~IsNum(weight.w3) THEN "raise"
    ELSE IF Abs(x.w3.v - weight.w3.v) >= 10 THEN "not"
    ELSE "dup"

\* a check that looks at the last weight of the list only
is_duplicate_weight_last_only(weight, weight_list) ==
    IF weight_list = <<>> THEN "not" ELSE close_weights(weight_list[Len(weight_list)], weight)

\* for w in weight_list: if (...): return True; return False
is_duplicate_weight(weight, weight_list) ==
    IF \A i \in 1..Len(weight_list) : close_weights(weight_list[i], weight) = "not"
    THEN "not"
    ELSE close_weights(
            weight_list[CHOOSE i \in 1..Len(weight_list) :
                           /\ close_weights(weight_list[i], weight) # "not"
                           /\ \A k \in 1..(i - 1) : close_weights(weight_list[k], weight) = "not"],
            weight)

RECURSIVE append_unless_duplicate(_, _, _)
\* the loops "if not is_duplicate_weight(x, weight_sets): weight_sets.append(x)"
\* over the first n of items, starting from acc; acc.raised once an item or a
\* comparison raised TypeError.  An item is a dict with the three keys
\* (t = "set"), a dict without them or a string (t = "skip": the all(...) test
\* is False), or a number (t = "num": key in item raises)
append_unless_duplicate(items, n, acc) ==
    IF n = 0
    THEN acc
    ELSE CHOOSE after \in
            {IF before.raised \/ items[n].t = "skip"
             THEN before
             ELSE IF items[n].t = "num"
             THEN [raised |-> TRUE, list |-> before.list]
             ELSE IF is_duplicate_weight(items[n].ws, before.list) = "raise"
             THEN [raised |-> TRUE, list |-> before.list]
             ELSE IF is_duplicate_weight(items[n].ws, before.list) = "dup"
             THEN before
             ELSE [raised |-> FALSE, list |-> Append(before.list, items[n].ws)] :
                before \in {append_unless_duplicate(items, n - 1, acc)}} : TRUE

\* load_multiple_weights on the file f: the list it returns
load_multiple_weights(f) ==
    IF f.kind \in {"absent", "bad_json", "no_keys"}
    THEN default_weight_sets
    ELSE CHOOSE weight_sets \in
            {IF r.raised \/ r.list = <<>> THEN default_weight_sets ELSE r.list :
                r \in {append_unless_duplicate(
                          [i \in 1..4 |-> [t |-> "set", ws |-> default_weight_sets[i]]], 4,
                          IF f.kind = "dict"
                          THEN [raised |-> FALSE, list |-> <<WeightSet(f.w1, f.w2, f.w3)>>]
                          ELSE append_unless_duplicate(f.items, Len(f.items),
                                                       [raised |-> FALSE, list |-> <<>>]))}} : TRUE

\* the items the lists of the modelled files are made of
FileItems ==
    {[t |-> "set", ws |-> WeightSet(Num(330), Num(330), Num(340))],
     [t |-> "set", ws |-> WeightSet(Num(335), Num(335), Num(335))],
     [t |-> "set", ws |-> WeightSet(Num(340), Num(340), Num(330))],
     [t |-> "set", ws |-> WeightSet(Num(500), Num(250), Num(250))],
     [t |-> "set", ws |-> WeightSet(Num(500), Str, Num(250))],
     [t |-> "set", ws |-> WeightSet(Num(800), Num(100), Num(100))],
     [t |-> "skip"],
     [t |-> "num"]}

MultipleWeightFiles ==
    {NoFile, BadJson, NoKeys}
    \cup {WFile(x.ws.w1, x.ws.w2, x.ws.w3) : x \in {y \in FileItems : y.t = "set"}}
    \cup {[kind |-> "list", items |-> s] : s \in UNION {[1..n -> FileItems] : n \in 0..MaxItems}}

LoadMultipleWeights ==
    /\ pc = "load_multiple_weights"
    /\ ret' = Returned(load_multiple_weights(weights_file))
    /\ pc' = "multiple_loaded"
    /\ UNCHANGED <<sensitivity_results, weights_file, w, weights_valid, data, config, tau1,
                   tau2, model, status, solver, grid, pos, total_combinations, best_cost,
                   best_timing, best_results, results, calls>>

InitMultipleWeights ==
    /\ weights_file \in MultipleWeightFiles
    /\ w = default_weights
    /\ weights_valid = TRUE
    /\ data = DataTypical
    /\ config = None
    /\ tau1 = default_tau1
    /\ tau2 = default_tau2
    /\ model = None
    /\ status = LpStatusNotSolved
    /\ solver \in {s \in SolverKinds : s.tie = "lo"}
    /\ pc = "load_multiple_weights"
    /\ grid = <<>>
    /\ pos = 0
    /\ total_combinations = 0
    /\ best_cost = Inf
    /\ best_timing = None
    /\ best_results = None
    /\ results = None
    /\ ret = NotReturned
    /\ calls = <<>>
    /\ sensitivity_results = None

NextMultipleWeights == LoadMultipleWeights

SpecMultipleWeights == InitMultipleWeights /\ [][NextMultipleWeights]_vars





(***************************************************************************)
(* Properties                                                              *)
(***************************************************************************)
\* the solve_model calls made so far that returned a result record
Solved == {i \in 1..Len(calls) : calls[i].results # None}

TimingOf(c) ==
    [tau1_1 |-> c.tau1[1], tau2_1 |-> c.tau2[1], tau1_2 |-> c.tau1[2], tau2_2 |-> c.tau2[2]]

ObjectiveOf(i) == calls[i].results.objective_value

\* the first solved call, in traversal order, whose objective is the minimum
IsFirstMinimum(k) ==
    /\ k \in Solved
    /\ \A i \in Solved : WLeq(ObjectiveOf(k), ObjectiveOf(i))
    /\ \A i \in Solved : i < k => WLess(ObjectiveOf(k), ObjectiveOf(i))

ReturnedPair == ret.kind = "returned" /\ ret.value # None

\* C1: the best timing and result are those of the first solved grid point,
\* in traversal order, that attains the minimum objective: a later point
\* with an equal objective never replaces it.
C1_FirstMinimumKept ==
    /\ pc = "search" /\ best_timing # None =>
          \E k \in Solved : /\ IsFirstMinimum(k)
                            /\ best_timing = TimingOf(calls[k])
                            /\ best_results = calls[k].results
    /\ ReturnedPair =>
          \E k \in Solved : /\ IsFirstMinimum(k)
                            /\ ret.value.timing = TimingOf(calls[k])
                            /\ ret.value.results = calls[k].results

\* a search returned the earlier of two solved points that share the minimum
C1_Witness ==
    /\ ReturnedPair
    /\ \E k \in Solved, i \in Solved :
          /\ k < i
          /\ IsFirstMinimum(k)
          /\ ObjectiveOf(i) = ObjectiveOf(k)
          /\ ret.value.timing = TimingOf(calls[k])
          /\ \E h \in Solved : h < k


\* the least objective among the solved calls is the objective of call k
IsMinimum(obj) == \A i \in Solved : WLeq(obj, ObjectiveOf(i))

\* the timing a result record carries in its tau1 and tau2
TimingIn(r) ==
    [tau1_1 |-> r.tau1[1], tau2_1 |-> r.tau2[1], tau1_2 |-> r.tau1[2], tau2_2 |-> r.tau2[2]]

\* C2: after every iteration best_cost, best_timing and best_results belong
\* to one solved grid point whose objective is the minimum over the points
\* solved so far, and a returned pair is such a point: its result has the
\* minimum objective and its timing is the tau1/tau2 of that result.
C2_BestIsMinimumOfOnePoint ==
    /\ (best_timing = None) <=> (Solved = {})
    /\ (best_results = None) <=> (Solved = {})
    /\ best_cost.inf <=> (Solved = {})
    /\ Solved # {} =>
          /\ \E k \in Solved : best_results = calls[k].results
          /\ best_cost = Cost(best_results.objective_value)
          /\ best_timing = TimingIn(best_results)
          /\ IsMinimum(best_results.objective_value)
    /\ ReturnedPair =>
          /\ \E k \in Solved : ret.value.results = calls[k].results
          /\ IsMinimum(ret.value.results.objective_value)
          /\ ret.value.timing = TimingIn(ret.value.results)

\* a search returned a point that replaced an earlier, costlier solved point,
\* with the two inner timings of the point different
C2_Witness ==
    /\ ReturnedPair
    /\ \E i \in Solved, k \in Solved :
          /\ i < k
          /\ WLess(ObjectiveOf(k), ObjectiveOf(i))
          /\ ret.value.results = calls[k].results
    /\ ret.value.timing.tau2_1 # ret.value.timing.tau1_2

\* the calls of solve_model made so far
SolverInvocations == {i \in 1..Len(calls) : calls[i].op = "solve_model"}

\* C3: no grid point with tau2_1 >= T or tau2_2 >= T is passed to build_model
\* or solve_model, and the number of solver invocations of a search equals
\* total_combinations, the in-bounds grid points counted beforehand.
C3_OnlyInBoundsSolved ==
    /\ \A i \in 1..Len(calls) : calls[i].tau2[1] < T /\ calls[i].tau2[2] < T
    /\ pc \in {"done", "raised"} /\ config # None =>
          Cardinality(SolverInvocations) = total_combinations

\* a search that ended, after a solver invocation, with fewer invocations
\* than in-bounds points
C3_Witness ==
    /\ pc = "raised"
    /\ SolverInvocations # {}
    /\ Cardinality(SolverInvocations) < total_combinations

\* C4: every timing find_optimal_timing hands to build_model has
\* 0 <= tau1_g < tau2_g <= T - 1 for both groups, whatever the values of the
\* nine configuration keys.
C4_TimingWithinSeries ==
    \A i \in 1..Len(calls) : \A g \in Groups :
        /\ 0 <= calls[i].tau1[g]
        /\ calls[i].tau1[g] < calls[i].tau2[g]
        /\ calls[i].tau2[g] <= T - 1

\* build_model was called with dose 2 no later than dose 1 for a group, and
\* with a negative dose-1 day
C4_Witness ==
    /\ \E i \in 1..Len(calls) : \E g \in Groups : calls[i].tau2[g] <= calls[i].tau1[g]
    /\ \E i \in 1..Len(calls) : \E g \in Groups : calls[i].tau1[g] < 0

\* C5: with a configuration loaded, find_optimal_timing ends by returning:
\* None exactly when no grid point solved to Optimal (the empty grid
\* included), the pair (best timing, best result) otherwise; it never ends
\* in an exception.
C5_NoneExactlyWhenNothingSolved ==
    pc \in {"done", "raised"} /\ config # None =>
        /\ ret.kind = "returned"
        /\ (ret.value = None) <=> (\A i \in 1..Len(calls) : calls[i].status # LpStatusOptimal)
        /\ ret.value # None =>
              /\ best_results # None
              /\ ret.value = [timing |-> best_timing, results |-> best_results]

\* a search with a configuration ended in an exception without any point
\* solved to Optimal
C5_Witness ==
    /\ config # None
    /\ pc = "raised"
    /\ \A i \in 1..Len(calls) : calls[i].status # LpStatusOptimal

\* C6: solve_model returns a result record if and only if the solver status
\* is Optimal; on any other status it returns None, and find_optimal_timing
\* leaves best_cost, best_timing and best_results as they were and goes on to
\* the next grid point.
C6_RecordIffOptimal ==
    [][Len(calls') = Len(calls) + 1 /\ calls'[Len(calls')].op = "solve_model" =>
          LET c == calls'[Len(calls')]
          IN  /\ (c.results # None) <=> (c.status = LpStatusOptimal)
              /\ c.status # LpStatusOptimal =>
                    /\ best_cost' = best_cost
                    /\ best_timing' = best_timing
                    /\ best_results' = best_results
                    /\ pc' = "search"
                    /\ pos' = pos + 1]_vars

\* solve_model ended in an exception on a model solved to Optimal
C6_Witness ==
    /\ ret = Raised("ZeroDivisionError")
    /\ calls[Len(calls)].status = LpStatusOptimal
    /\ calls[Len(calls)].results = None

\* the days of the three ranges of group j, in the order build_model sums them
AllRangeDays(j) ==
    days_before_vax(tau1, tau2, j) \o days_between_doses(tau1, tau2, j)
        \o days_after_dose2(tau1, tau2, j)

\* the ranges of group j hold every day of the series exactly once, and the
\* sums build_model took over them are sums over exactly those days
RangesPartition(j) ==
    /\ Len(AllRangeDays(j)) = T
    /\ \A d \in Days :
          Cardinality({i \in 1..Len(AllRangeDays(j)) : AllRangeDays(j)[i] = d}) = 1
    /\ model.I_before[j] + model.I_between[j] + model.I_after[j]
          = SumDays(data.I[j], PyRange(0, T, 1))
    /\ model.E_between[j] = SumDays(data.I[j], days_between_doses(tau1, tau2, j))
    /\ model.E_after[j] = SumDays(data.I[j], days_after_dose2(tau1, tau2, j))
    /\ tau1[j] = 0 =>
          /\ Len(days_before_vax(tau1, tau2, j)) = 0
          /\ model.I_before[j] = 0
          /\ model.E_before[j] = 0

ModelBuilt == model # None /\ model.built

\* C7 as stated: for every timing with tau1_g < tau2_g <= T - 1 the three
\* ranges of group g cover every day 0..T-1 exactly once and their lengths
\* sum to T; the first range is empty and sums to 0 when tau1_g = 0.
C7_AnyTimingPartitions ==
    \A j \in Groups :
        ModelBuilt /\ tau1[j] < tau2[j] /\ tau2[j] <= T - 1 => RangesPartition(j)

\* C7, amended: for every timing with 0 <= tau1_g < tau2_g <= T - 1 the three
\* ranges of group g cover every day 0..T-1 exactly once and their lengths
\* sum to T; the first range is empty and sums to 0 when tau1_g = 0.
C7_ValidTimingPartitions ==
    \A j \in Groups :
        ModelBuilt /\ 0 <= tau1[j] /\ tau1[j] < tau2[j] /\ tau2[j] <= T - 1
            => RangesPartition(j)

\* a model built for a timing valid for both groups, dose 1 starting on day 0
\* for one and later for the other, over series with infections on every day
C7_Witness ==
    /\ ModelBuilt
    /\ \A j \in Groups : 0 <= tau1[j] /\ tau1[j] < tau2[j] /\ tau2[j] <= T - 1
    /\ \E j \in Groups : tau1[j] = 0
    /\ \E j \in Groups : tau1[j] > 0 /\ model.I_before[j] > 0
    /\ \A j \in Groups : model.I_after[j] > 0

\* the file holds three numbers
NumericFile == weights_file.kind = "dict" /\ \A k \in {"w1", "w2", "w3"} : IsNum(weights_file[k])

FileSum == weights_file.w1.v + weights_file.w2.v + weights_file.w3.v

\* C8: whatever the weights file holds, the weights load_weights returns are
\* numbers with w1 + w2 + w3 = 1 within 1e-4 (in thousandths: exactly 1000)
\* and each in [0, 1].
C8_WeightsSumToOne ==
    pc = "loaded" =>
        /\ \A k \in {"w1", "w2", "w3"} : IsNum(w[k])
        /\ w.w1.v + w.w2.v + w.w3.v = 1000
        /\ \A k \in {"w1", "w2", "w3"} : 0 <= w[k].v /\ w[k].v <= 1000

\* load_weights returned the numbers of a file whose sum is off by 0.005
C8_Witness ==
    /\ pc = "loaded"
    /\ NumericFile
    /\ w = [w1 |-> weights_file.w1, w2 |-> weights_file.w2, w3 |-> weights_file.w3]
    /\ FileSum = 1005
    /\ weights_valid

DemandOf(r) ==
    LET group(j) == r.U1[j] * SumDays(data.S[j], days_between_doses(r.tau1, r.tau2, j))
                    + r.U2[j] * SumDays(data.V1[j], days_after_dose2(r.tau1, r.tau2, j))
    IN  group(1) + group(2)

\* C10: every result solve_model returns has total vaccine demand, taken over
\* the between-doses and after-dose-2 windows of Z2, at most
\* V_prime_1 + V_prime_2, which is at most L.
C10_DemandWithinSupplyWithinCapacity ==
    \A i \in Solved :
        LET r == calls[i].results
        IN  /\ 10 * DemandOf(r) <= r.V_prime[1] + r.V_prime[2]
            /\ r.V_prime[1] + r.V_prime[2] <= 3000 * 1000

\* a result whose positive demand, part of it dose 1 of group 1, is met exactly
C10_Witness ==
    /\ \E i \in Solved :
          /\ DemandOf(calls[i].results) > 0
          /\ 10 * DemandOf(calls[i].results)
                = calls[i].results.V_prime[1] + calls[i].results.V_prime[2]
          /\ calls[i].results.U1[1] > 0
          /\ SumDays(data.S[1], days_between_doses(calls[i].results.tau1,
                                                   calls[i].results.tau2, 1)) > 0

\* C11: every result solve_model returns has, for each group g,
\* 0.05 <= U2_g <= U1_g <= 0.95.
C11_CoverageOrderedWithinBounds ==
    \A i \in Solved :
        \A g \in Groups :
            /\ 5 <= calls[i].results.U2[g]
            /\ calls[i].results.U2[g] <= calls[i].results.U1[g]
            /\ calls[i].results.U1[g] <= 95

\* a result that gives a group fewer second doses than first doses, and one
\* whose first-dose coverage is at the 95% ceiling
C11_Witness ==
    /\ \E i \in Solved : \E g \in Groups :
          calls[i].results.U2[g] < calls[i].results.U1[g]
    /\ \E i \in Solved : \E g \in Groups : calls[i].results.U1[g] = 95

\* C12: every result solve_model returns has each manufacturer's production
\* between 10% and 90% of V_prime_1 + V_prime_2.
C12_ProducerShareBounded ==
    \A i \in Solved :
        \A k \in 1..num_manufacturers :
            LET r == calls[i].results
            IN  /\ 10 * r.V_prime[k] >= r.V_prime[1] + r.V_prime[2]
                /\ 10 * r.V_prime[k] <= 9 * (r.V_prime[1] + r.V_prime[2])

\* a result with positive production where the dearer manufacturer supplies
\* exactly the 10% floor
C12_Witness ==
    \E i \in Solved :
        /\ calls[i].results.V_prime[1] + calls[i].results.V_prime[2] > 0
        /\ 10 * calls[i].results.V_prime[1]
              = calls[i].results.V_prime[1] + calls[i].results.V_prime[2]

\* C13: for 100 time points, 1000 people per group, 10 infected at every time
\* point, tau1 = [10, 10] and tau2 = [40, 40], build_model followed by
\* solve_model reaches status Optimal whatever the other series are, and the
\* result has V_prime_1 + V_prime_2 <= 1000 and U2_g <= U1_g for both groups.
C13_ScenarioOptimal ==
    pc \in {"solved", "raised"} =>
        /\ status = LpStatusOptimal
        /\ pc = "solved"
        /\ results # None
        /\ results.V_prime[1] + results.V_prime[2] <= 1000 * 1000
        /\ \A g \in Groups : results.U2[g] <= results.U1[g]

\* the scenario with 500 susceptible and 490 vaccinated with dose 1 in each
\* group was built and solved, and the status is not Optimal
C13_Witness ==
    /\ pc = "solved"
    /\ \A j \in Groups : data.S[j][0] = 500 /\ data.V1[j][0] = 490
    /\ tau1 = <<10, 10>>
    /\ tau2 = <<40, 40>>
    /\ status # LpStatusOptimal
    /\ results = None

\* C14: for every assignment of U1_g, U2_g, V_prime_i that satisfies the
\* constraints of the model just built, each of the raw objectives Z1, Z2
\* and Z3 is non-negative (the series and cost parameters are non-negative).
C14_ObjectivesNonNegative ==
    ModelBuilt =>
        \A x \in FeasibleSet(model) :
            /\ objective1(model, x) >= 0
            /\ WNonNeg(objective2(model, x))
            /\ WNonNeg(objective3(model, x))

\* a model with a feasible assignment at the 95% ceiling of dose 2 whose three
\* raw objectives are positive
C14_Witness ==
    /\ ModelBuilt
    /\ \E x \in FeasibleSet(model) :
          /\ x.U2[1] = 95
          /\ objective1(model, x) > 0
          /\ WLess(WZero, objective2(model, x))
          /\ WLess(WZero, objective3(model, x))

\* the timing of the model just built is valid: 0 <= tau1_g < tau2_g <= T - 1
ValidTimingBuilt ==
    /\ ModelBuilt
    /\ \A j \in Groups : 0 <= tau1[j] /\ tau1[j] < tau2[j] /\ tau2[j] <= T - 1

\* the coverages that satisfy the constraints on U1 and U2
FeasibleCoverage == {v \in CoverageLattice : coverage_constraints(v)}

\* C15 as stated: holding everything else fixed, a larger U1_g strictly
\* decreases the between-doses infection terms of Z2 and Z3 of group g, a
\* larger U2_g strictly decreases their after-dose-2 infection terms, and the
\* administration terms CV1*1.5*U1_g and CV2*1.5*U2_g strictly increase, for
\* every valid timing and every non-negative infected series.
C15_StrictlyMonotone ==
    ValidTimingBuilt =>
        \A j \in Groups : \A x \in FeasibleCoverage : \A u \in ULevels :
            /\ u > x.U1[j] =>
                 LET y == [x EXCEPT !.U1[j] = u]
                 IN  /\ WLess(social_infection_between_doses(model, y, j),
                              social_infection_between_doses(model, x, j))
                     /\ WLess(economic_cost_between_doses(model, y, j),
                              economic_cost_between_doses(model, x, j))
                     /\ WLess(administration_dose1(x, j), administration_dose1(y, j))
            /\ u > x.U2[j] =>
                 LET y == [x EXCEPT !.U2[j] = u]
                 IN  /\ WLess(social_infection_after_dose2(model, y, j),
                              social_infection_after_dose2(model, x, j))
                     /\ WLess(economic_cost_after_dose2(model, y, j),
                              economic_cost_after_dose2(model, x, j))
                     /\ WLess(administration_dose2(x, j), administration_dose2(y, j))

\* C15, amended: for a valid timing, a larger U1_g strictly decreases the
\* between-doses infection terms of Z2 and Z3 of group g when the infected
\* series of g sums to a positive number over the between-doses range, and
\* leaves them at zero when that sum is zero; likewise a larger U2_g and the
\* after-dose-2 range; the administration terms strictly increase.
C15_MonotoneStrictWhereInfected ==
    ValidTimingBuilt =>
        \A j \in Groups : \A x \in FeasibleCoverage : \A u \in ULevels :
            /\ u > x.U1[j] =>
                 LET y  == [x EXCEPT !.U1[j] = u]
                     s2 == social_infection_between_doses(model, x, j)
                     t2 == social_infection_between_doses(model, y, j)
                     s3 == economic_cost_between_doses(model, x, j)
                     t3 == economic_cost_between_doses(model, y, j)
                 IN  /\ IF model.I_between[j] > 0
                        THEN WLess(t2, s2) /\ WLess(t3, s3)
                        ELSE t2 = WZero /\ s2 = WZero /\ t3 = WZero /\ s3 = WZero
                     /\ WLess(administration_dose1(x, j), administration_dose1(y, j))
            /\ u > x.U2[j] =>
                 LET y  == [x EXCEPT !.U2[j] = u]
                     s2 == social_infection_after_dose2(model, x, j)
                     t2 == social_infection_after_dose2(model, y, j)
                     s3 == economic_cost_after_dose2(model, x, j)
                     t3 == economic_cost_after_dose2(model, y, j)
                 IN  /\ IF model.I_after[j] > 0
                        THEN WLess(t2, s2) /\ WLess(t3, s3)
                        ELSE t2 = WZero /\ s2 = WZero /\ t3 = WZero /\ s3 = WZero
                     /\ WLess(administration_dose2(x, j), administration_dose2(y, j))

\* a model built for a valid timing in which group 1 has infected people
\* after dose 2 and none between the doses
C15_Witness ==
    /\ ValidTimingBuilt
    /\ model.I_between[1] = 0
    /\ model.I_after[1] > 0

ConfigFileRead == calls[1].file

\* the file is a JSON dict that holds all nine required keys
HoldsAllKeys ==
    /\ ConfigFileRead.kind = "json"
    /\ ConfigFileRead.value.t = "dict"
    /\ required_keys \subseteq DOMAIN ConfigFileRead.value.d

\* C17: load_config raises whenever one of the nine required keys is missing
\* from the JSON file, the file does not exist, or it is not valid JSON; it
\* returns normally only when all nine keys are present.
C17_ConfigNeedsAllKeys ==
    /\ pc = "config_loaded" => HoldsAllKeys /\ ret = Returned(None)
    /\ pc \in {"config_loaded", "config_raised"} /\ ~HoldsAllKeys =>
          pc = "config_raised" /\ ret.kind = "raised"

\* load_config raised on a dict that lacks only time_step
C17_Witness ==
    /\ pc = "config_raised"
    /\ ConfigFileRead.kind = "json"
    /\ ConfigFileRead.value.t = "dict"
    /\ DOMAIN ConfigFileRead.value.d = required_keys \ {"time_step"}
    /\ ret = Raised("Exception")

\* C18: in Z3 the quarantine rate of each of the three day ranges of group g
\* is A * (number of days build_model sums over in that range) + B, that is
\* tau1_g, tau2_g - tau1_g and EndTime_g - tau2_g + 1 days, which sum to T.
C18_RatesUseRangeLengths ==
    ValidTimingBuilt =>
        \A j \in Groups :
            /\ model.Cq_before[j] = A * Len(days_before_vax(tau1, tau2, j)) + B
            /\ model.Cq_between[j] = A * Len(days_between_doses(tau1, tau2, j)) + B
            /\ model.Cq_after[j] = A * Len(days_after_dose2(tau1, tau2, j)) + B
            /\ Len(days_before_vax(tau1, tau2, j)) + Len(days_between_doses(tau1, tau2, j))
                  + Len(days_after_dose2(tau1, tau2, j)) = T

\* a model built for a valid timing whose after-dose-2 rate counts one day
\* fewer than the after-dose-2 range holds
C18_Witness ==
    /\ ValidTimingBuilt
    /\ \A j \in Groups :
          /\ model.Cq_before[j] = A * Len(days_before_vax(tau1, tau2, j)) + B
          /\ model.Cq_between[j] = A * Len(days_between_doses(tau1, tau2, j)) + B
          /\ model.Cq_after[j] = A * (Len(days_after_dose2(tau1, tau2, j)) - 1) + B

\* w1*z1/5000 + w2*z2/400000 + w3*z3/10000000 in units of 1e-14, for weights
\* in thousandths, z1 and z2 in thousandths and z3 in ten-thousandths
NormalizedSum(ww, z1, z2, z3) ==
    WAdd(WScale(WMul(W(z1), ww.w1.v), 20000),
         WAdd(WScale(WMul(z2, ww.w2.v), 250), WMul(z3, ww.w3.v)))

\* the assignment a result record reports
AssignmentOf(r) == [U1 |-> r.U1, U2 |-> r.U2, V_prime |-> r.V_prime]

\* C19: in every result solve_model returns, objective_value equals
\* w1*objective1_value/5000 + w2*objective2_value/400000
\* + w3*objective3_value/10000000 of the same record, and the three raw
\* values are the unnormalized Z1, Z2, Z3 at the reported optimum.
C19_ObjectiveIsNormalizedSum ==
    \A i \in Solved :
        LET r  == calls[i].results
            lp == LP(data, r.weights, r.tau1, r.tau2)
        IN  /\ r.objective_value
                  = NormalizedSum(r.weights, r.objective1_value, r.objective2_value,
                                  r.objective3_value)
            /\ r.objective1_value = P[1] * r.V_prime[1] + P[2] * r.V_prime[2]
            /\ r.objective2_value = objective2(lp, AssignmentOf(r))
            /\ r.objective3_value = objective3(lp, AssignmentOf(r))

\* a result under the default weights whose three raw objectives are positive
C19_Witness ==
    \E i \in Solved :
        /\ calls[i].results.weights = default_weights
        /\ calls[i].results.objective1_value > 0
        /\ WLess(WZero, calls[i].results.objective2_value)
        /\ WLess(WZero, calls[i].results.objective3_value)
        /\ WLess(calls[i].results.objective2_value, calls[i].results.objective_value)

\* the entries appended so far, row by row
MatrixEntries ==
    Concat(sensitivity_results.cost_matrix, Len(sensitivity_results.cost_matrix))
        \o sensitivity_results.row

\* the solve_model calls of the timing ([t1v, t1v], [t2v, t2v - 5]) that ended
\* Optimal and returned a result record
OptimalSolves(t1v, t2v) ==
    {i \in 1..Len(calls) : /\ calls[i].op = "solve_model"
                           /\ calls[i].tau1 = <<t1v, t1v>>
                           /\ calls[i].tau2 = <<t2v, t2v - 5>>
                           /\ calls[i].status = LpStatusOptimal
                           /\ calls[i].results # None}

SweepStarted == pc \in {"cost_matrix", "rebuild", "sensitivity_done", "sensitivity_raised"}

\* C20: in the cost-matrix sweep of analyze_timing_sensitivity every finished
\* row has one entry per value of tau1_test_range, in the order of the loop;
\* the entry of (tau2, tau1) is the objective value of an Optimal solve of that
\* timing, and float('inf') when tau2 <= tau1 + 40, when the build or the solve
\* raised, or when the status was not Optimal; no point ends the sweep: once
\* the loops are left the matrix has one row per value of tau2_test_range
C20_MatrixEntryPerPoint ==
    SweepStarted =>
        /\ \A r \in 1..Len(sensitivity_results.cost_matrix) :
              Len(sensitivity_results.cost_matrix[r]) = Len(tau1_test_range)
        /\ Len(sensitivity_results.row) < Len(tau1_test_range)
        /\ pc = "cost_matrix" => Len(MatrixEntries) = pos - 1
        /\ pc # "cost_matrix" =>
              /\ Len(sensitivity_results.cost_matrix) = Len(tau2_test_range)
              /\ sensitivity_results.row = <<>>
        /\ \A k \in 1..Len(MatrixEntries) :
              \E t2v \in {tau2_test_range[((k - 1) \div Len(tau1_test_range)) + 1]} :
              \E t1v \in {tau1_test_range[((k - 1) % Len(tau1_test_range)) + 1]} :
                 IF t2v > t1v + 40 /\ OptimalSolves(t1v, t2v) # {}
                 THEN /\ ~build_raises(<<t1v, t1v>>, <<t2v, t2v - 5>>)
                      /\ \A i \in OptimalSolves(t1v, t2v) :
                            MatrixEntries[k] = Cost(calls[i].results.objective_value)
                 ELSE MatrixEntries[k] = Inf

\* a finished matrix that holds an objective value, the sentinel of a point
\* with tau2 <= tau1 + 40, the sentinel of a build that raised, and the
\* sentinel of a solve that was not Optimal or raised
C20_Witness ==
    /\ pc \in {"sensitivity_done", "sensitivity_raised"}
    /\ \E k \in 1..Len(MatrixEntries) : ~MatrixEntries[k].inf
    /\ MatrixEntries[3] = Inf
    /\ \E i \in 1..Len(calls) :
          /\ calls[i].op = "build_model"
          /\ calls[i].tau1[1] \in {tau1_test_range[n] : n \in 1..Len(tau1_test_range)}
          /\ calls[i].tau2[1] \in {tau2_test_range[n] : n \in 1..Len(tau2_test_range)}
    /\ \E i \in 1..Len(calls) :
          /\ calls[i].op = "solve_model"
          /\ calls[i].results = None
          /\ calls[i].tau2[1] \in {tau2_test_range[n] : n \in 1..Len(tau2_test_range)}

\* analyze_timing_sensitivity has ended, by return or by an exception
SensitivityEnded == pc \in {"sensitivity_done", "sensitivity_raised"}

\* C21: analyze_timing_sensitivity ends by returning, never by an exception of
\* its last build_model(), and then self.tau1, self.tau2 and the built model
\* are those in effect before the sweep started (here the timing __init__ set)
C21_SweepRestoresTiming ==
    SensitivityEnded =>
        /\ pc = "sensitivity_done"
        /\ tau1 = default_tau1
        /\ tau2 = default_tau2
        /\ model = LP(data, w, default_tau1, default_tau2)

\* the method ended on the timing of the last matrix point, which lies beyond
\* a series of 100 time points, and the build_model() after the loops raised
C21_Witness ==
    /\ pc = "sensitivity_raised"
    /\ ret = Raised("IndexError")
    /\ T = 100
    /\ tau1 = <<45, 45>>
    /\ tau2 = <<123, 118>>
    /\ model = EmptyLP

\* C22: whatever the order of the build_model and solve_model calls of two
\* grid points on one optimizer (each point's build before its solve), the
\* solve_model call of a point returns what build_model followed by
\* solve_model returns for that point alone, with the point's own timing
C22_InterleavedAsSequential ==
    pc = "interleaved" =>
        \A k \in 1..2 : \A i \in CallsOf(k, "solve_model") :
            \E alone \in {build_and_solve(data, w, <<grid[k][1], grid[k][3]>>,
                                          <<grid[k][2], grid[k][4]>>, solver)} :
               /\ calls[i].results = alone.results
               /\ calls[i].raised = alone.raised
               /\ calls[i].tau1 = <<grid[k][1], grid[k][3]>>
               /\ calls[i].tau2 = <<grid[k][2], grid[k][4]>>

\* build of point 1, build of point 2, then the solve of point 1 returned a
\* record that carries the timing of point 2
C22_Witness ==
    /\ pc = "interleaved"
    /\ Len(calls) = 3
    /\ calls[1].op = "build_model" /\ calls[1].point = 1
    /\ calls[2].op = "build_model" /\ calls[2].point = 2
    /\ calls[3].op = "solve_model" /\ calls[3].point = 1
    /\ calls[3].results # None
    /\ calls[3].results.tau1 = <<grid[2][1], grid[2][3]>>
    /\ calls[3].results.tau2 = <<grid[2][2], grid[2][4]>>
    /\ calls[3].results.tau2 # <<grid[1][2], grid[1][4]>>

\* the total vaccine amount of group j in a result record (hundredths of a
\* dose): U1_j * windowed susceptibles + U2_j * windowed dose-1-vaccinated
TotalVaccineOf(r, j) ==
    IF j = 1
    THEN r.equity_metrics.vaccine_dose1_group1 + r.equity_metrics.vaccine_dose2_group1
    ELSE r.equity_metrics.vaccine_dose1_group2 + r.equity_metrics.vaccine_dose2_group2

\* C23: in every returned result the total vaccine amounts of the two groups
\* differ by at most 0.9
C23_VaccineAmountDifferenceBounded ==
    \A i \in Solved :
        Abs(TotalVaccineOf(calls[i].results, 2) - TotalVaccineOf(calls[i].results, 1)) <= 90

\* a result whose coverage fractions satisfy the constraint of build_model
\* (the sums U1 + U2 of the groups differ by at most 0.9) while the vaccine
\* amounts of the groups differ by more than 0.9
C23_Witness ==
    \E i \in Solved :
        /\ Max_Total_Vaccine_Diff(calls[i].results)
        /\ Abs(TotalVaccineOf(calls[i].results, 2) - TotalVaccineOf(calls[i].results, 1)) > 90

\* total_pop_group1 / total_pop_group2 of calculate_additional_info: the six
\* compartments of group j at the first time point
TotalPopulation(j) ==
    data.S[j][0] + data.I[j][0] + data.Q[j][0] + data.V1[j][0] + data.V2[j][0] + data.R[j][0]

\* C24: in every result population_effectiveness is min(group 1's share of the
\* dose-1 vaccines / group 1's share of the total population, 1.0), the
\* population of a group being S+I+Q+V1+V2+R, and equity_diff_dose1 and
\* equity_diff_dose2 are |U1_1 - U1_2| and |U2_1 - U2_2|
C24_EffectivenessUsesPopulationShare ==
    \A i \in Solved :
        \E m \in {calls[i].results.equity_metrics} :
            /\ m.population_effectiveness =
                  population_effectiveness(m.vaccine_dose1_group1,
                                           m.vaccine_dose1_group1 + m.vaccine_dose1_group2,
                                           TotalPopulation(1),
                                           TotalPopulation(1) + TotalPopulation(2))
            /\ m.equity_diff_dose1 = Abs(calls[i].results.U1[1] - calls[i].results.U1[2])
            /\ m.equity_diff_dose2 = Abs(calls[i].results.U2[1] - calls[i].results.U2[2])

\* a result whose population_effectiveness is a number below 1.0 that differs
\* from the one computed with the population shares, with both groups
\* susceptible at the first time point
C24_Witness ==
    \E i \in Solved :
        \E m \in {calls[i].results.equity_metrics} :
            /\ data.S[1][0] > 0 /\ data.S[2][0] > 0
            /\ m.population_effectiveness # NaN
            /\ m.population_effectiveness # Fraction(1, 1)
            /\ m.population_effectiveness #
                  population_effectiveness(m.vaccine_dose1_group1,
                                           m.vaccine_dose1_group1 + m.vaccine_dose1_group2,
                                           TotalPopulation(1),
                                           TotalPopulation(1) + TotalPopulation(2))

\* C25: for every configuration holding the nine keys, find_optimal_timing
\* walks a finite grid of pairwise different points, one point per pass, never
\* ends in an exception, and ends with the grid exhausted and a value
\* returned (a pair or None)
C25_SearchExhaustsGrid ==
    config # None =>
        /\ pc # "raised"
        /\ pc = "search" =>
              /\ pos \in 1..(Len(grid) + 1)
              /\ \A i, j \in 1..Len(grid) : i # j => grid[i] # grid[j]
        /\ pc = "done" =>
              /\ pos = Len(grid) + 1
              /\ ret.kind = "returned"
              /\ ret.value = None \/ ret.value = [timing |-> best_timing, results |-> best_results]

\* a configuration with time_step = 0: the search raised ValueError before it
\* reached a grid point
C25_Witness ==
    /\ config # None
    /\ config.time_step = 0
    /\ pc = "raised"
    /\ ret = Raised("ValueError")
    /\ calls = <<>>
    /\ grid = <<>>

\* the save_results_to_json calls made so far
Saves == {i \in 1..Len(calls) : calls[i].op = "save_results_to_json"}

\* C26: the optimal_timing that save_results_to_json writes is the timing
\* stored in the results record it saves, also when visualize_results ran the
\* sensitivity sweep between the solve and the save
C26_SavedTimingIsResultsTiming ==
    \A i \in Saves :
        calls[i].optimal_timing = Timing(<<calls[i].saved.tau1[1], calls[i].saved.tau2[1],
                                          calls[i].saved.tau1[2], calls[i].saved.tau2[2]>>)

\* results solved for the default timing were saved, after the sweep, under
\* the timing of the last matrix point
C26_Witness ==
    \E i \in Saves :
        /\ sensitivity_results # None
        /\ calls[i].saved.tau1 = default_tau1
        /\ calls[i].saved.tau2 = default_tau2
        /\ calls[i].optimal_timing = [tau1_1 |-> 45, tau2_1 |-> 123, tau1_2 |-> 45, tau2_2 |-> 118]

\* C27: whenever load_weights returns weights_valid = False, the weights it
\* returns are the defaults (0.33, 0.33, 0.34)
C27_InvalidMeansDefaults ==
    pc = "loaded" /\ ~weights_valid => w = default_weights

\* a file with a non-numeric weight: load_weights returned weights_valid =
\* False together with the values of the file
C27_Witness ==
    /\ pc = "loaded"
    /\ ~weights_valid
    /\ weights_file.kind = "dict"
    /\ \E k \in {"w1", "w2", "w3"} : ~IsNum(weights_file[k])
    /\ w = [w1 |-> weights_file.w1, w2 |-> weights_file.w2, w3 |-> weights_file.w3]
    /\ w # default_weights

\* C28: when load_config ends in an exception, self.config is what it was
\* before the call (None, as __init__ set it)
C28_FailedLoadKeepsConfig ==
    pc = "config_raised" => config = None

\* load_config raised for a file that parses to a dict without all the nine
\* keys, and self.config holds that dict
C28_Witness ==
    /\ pc = "config_raised"
    /\ ret = Raised("Exception")
    /\ ConfigFileRead.kind = "json"
    /\ ConfigFileRead.value.t = "dict"
    /\ ~HoldsAllKeys
    /\ config = ConfigFileRead.value.d
    /\ config # None

\* C29: every solve_model call whose status is Optimal returned a result
\* record, and no search ended in the ZeroDivisionError of solve_model
C29_OptimalNeverRaises ==
    /\ \A i \in 1..Len(calls) :
          calls[i].op = "solve_model" /\ calls[i].status = LpStatusOptimal =>
              calls[i].results # None
    /\ pc = "raised" => ret # Raised("ZeroDivisionError")

\* the search ended in ZeroDivisionError at a grid point whose model solved
\* to Optimal with nothing produced (V_prime_1 = V_prime_2 = 0)
C29_Witness ==
    /\ pc = "raised"
    /\ ret = Raised("ZeroDivisionError")
    /\ status = LpStatusOptimal
    /\ model # EmptyLP
    /\ Solve(model, solver).x.V_prime = <<0, 0>>
    /\ producer_report_raises(Solve(model, solver).x)
    /\ ~equity_report_raises(tau1, tau2)

\* two weight sets whose w1, w2 and w3 all differ by less than 0.01
Duplicates(a, b) ==
    /\ \A k \in {"w1", "w2", "w3"} : IsNum(a[k]) /\ IsNum(b[k])
    /\ \A k \in {"w1", "w2", "w3"} : Abs(a[k].v - b[k].v) < 10

\* the weight sets the file holds, in file order
FileWeightSets ==
    IF weights_file.kind = "dict"
    THEN <<WeightSet(weights_file.w1, weights_file.w2, weights_file.w3)>>
    ELSE IF weights_file.kind = "list"
    THEN Concat([i \in 1..Len(weights_file.items) |->
                    IF weights_file.items[i].t = "set"
                    THEN <<weights_file.items[i].ws>> ELSE <<>>],
                Len(weights_file.items))
    ELSE <<>>

\* the default sets that duplicate none of the first k sets of the list lst
DefaultsNotIn(lst, k) ==
    Concat([m \in 1..4 |->
               IF \E i \in 1..k : Duplicates(lst[i], default_weight_sets[m])
               THEN <<>> ELSE <<default_weight_sets[m]>>], 4)

\* C30: the list load_multiple_weights returns is not empty, no two of its
\* weight sets are duplicates of each other, and it is made of weight sets of
\* the file in file order followed by the default sets that duplicate none of
\* them
C30_NoDuplicateWeightSets ==
    pc = "multiple_loaded" =>
        /\ Len(ret.value) >= 1
        /\ \A i, j \in 1..Len(ret.value) : i < j => ~Duplicates(ret.value[i], ret.value[j])
        /\ \E k \in 0..Len(ret.value) :
              /\ k <= Len(FileWeightSets)
              /\ \E idx \in [1..k -> 1..Len(FileWeightSets)] :
                    /\ \A i \in 1..k : ret.value[i] = FileWeightSets[idx[i]]
                    /\ \A i, j \in 1..k : i < j => idx[i] < idx[j]
              /\ SubSeq(ret.value, k + 1, Len(ret.value)) = DefaultsNotIn(ret.value, k)

\* a list file of three weight sets: the second duplicates the first and is
\* left out, the third is kept, and the first default set, which duplicates
\* the first weight set of the file, is left out
C30_Witness ==
    /\ pc = "multiple_loaded"
    /\ weights_file.kind = "list"
    /\ Len(FileWeightSets) = 3
    /\ Duplicates(FileWeightSets[1], FileWeightSets[2])
    /\ Duplicates(FileWeightSets[1], default_weight_sets[1])
    /\ ret.value = <<FileWeightSets[1], FileWeightSets[3], default_weight_sets[2],
                     default_weight_sets[3], default_weight_sets[4]>>

====
